---- MODULE Spec2Model ----
(***************************************************************************)
(* Model of the recipe catalog, the ingredient resolver and the suggestion *)
(* engine of poku-e/NMScripts (package main: loadCSV, normKey, lev,        *)
(* mapUserIngredients, suggest, intersectSortedOrUnsorted).                *)
(*                                                                         *)
(* Strings are sequences of Unicode code points (Go ranges over runes).    *)
(* Go slices are sequences; Go maps are functions whose DOMAIN is the set  *)
(* of keys.  Recipe IDs are 0-based as in the code: Recipes[ix] of the     *)
(* code is Recipes[ix + 1] here.                                           *)
(***************************************************************************)
EXTENDS Integers, Sequences, FiniteSets, TLC

\* ------------------------------------------------------------------------
\* Bounds of the model
\* ------------------------------------------------------------------------

\* most data rows of a CSV source
MaxRows == 2

\* most raw terms handed to mapUserIngredients in one call
MaxTerms == 2

\* most ingredient names handed to suggest in one call
MaxAll == 2

\* longest string handed to normKey in the normalization specification
MaxNormLen == 3

\* longest string (in code points) handed to lev in the distance specification
MaxLevLen == 3

\* longest 'have' query parameter of a /api/suggest request
MaxHaveLen == 4

\* ------------------------------------------------------------------------
\* Package unicode, on the code points the model uses (Latin-1 and the
\* combining diacritical marks block)
\* ------------------------------------------------------------------------

\* unicode.Is(unicode.Mn, r)
IsMn(r) == r \in 768..879

\* unicode.IsLetter(r)
IsLetter(r) ==
    \/ r \in 65..90
    \/ r \in 97..122
    \/ r \in {170, 181, 186}
    \/ r \in 192..214
    \/ r \in 216..246
    \/ r \in 248..255

\* unicode.IsNumber(r)
IsNumber(r) == r \in 48..57 \/ r \in {178, 179, 185, 188, 189, 190}

\* unicode.IsSpace(r)
IsSpace(r) == r \in {9, 10, 11, 12, 13, 32, 133, 160}

\* unicode.IsPunct(r): categories Pc Pd Ps Pe Pi Pf Po ($ + < = > ^ ` | ~ are symbols)
IsPunct(r) ==
    \/ r \in {33, 34, 35, 37, 38, 39, 40, 41, 42, 44, 45, 46, 47}
    \/ r \in {58, 59, 63, 64, 91, 92, 93, 95, 123, 125}
    \/ r \in {161, 167, 171, 182, 183, 187, 191}

\* unicode.ToLower(r)
ToLowerRune(r) ==
    IF r \in 65..90 \/ r \in 192..214 \/ r \in 216..222 THEN r + 32 ELSE r

\* ------------------------------------------------------------------------
\* Package strings
\* ------------------------------------------------------------------------

\* strings.ToLower(s)
ToLower(s) == [i \in 1..Len(s) |-> ToLowerRune(s[i])]

RECURSIVE TrimLeft(_)
TrimLeft(s) ==
    IF Len(s) > 0 /\ IsSpace(s[1]) THEN TrimLeft(Tail(s)) ELSE s

RECURSIVE TrimRight(_)
TrimRight(s) ==
    IF Len(s) > 0 /\ IsSpace(s[Len(s)])
    THEN TrimRight(SubSeq(s, 1, Len(s) - 1))
    ELSE s

\* strings.TrimSpace(s)
TrimSpace(s) == TrimRight(TrimLeft(s))

\* strings.Fields(s): the maximal runs of non-space runes, in order
RECURSIVE FieldsFrom(_, _, _)
FieldsFrom(s, i, cur) ==
    IF i > Len(s)
    THEN (IF cur = <<>> THEN <<>> ELSE <<cur>>)
    ELSE IF IsSpace(s[i])
         THEN (IF cur = <<>> THEN <<>> ELSE <<cur>>) \o FieldsFrom(s, i + 1, <<>>)
         ELSE FieldsFrom(s, i + 1, Append(cur, s[i]))

Fields(s) == FieldsFrom(s, 1, <<>>)

\* strings.Join(elems, " ")
RECURSIVE JoinSpace(_)
JoinSpace(elems) ==
    IF elems = <<>> THEN <<>>
    ELSE IF Len(elems) = 1 THEN elems[1]
    ELSE elems[1] \o <<32>> \o JoinSpace(Tail(elems))

\* strings.Contains(s, substr)
Contains(s, substr) ==
    \E k \in 0..(Len(s) - Len(substr)) :
        \A i \in 1..Len(substr) : s[k + i] = substr[i]

\* Go's string order (bytewise on UTF-8, which is code point order)
RECURSIVE StrLess(_, _)
StrLess(a, b) ==
    IF Len(b) = 0 THEN FALSE
    ELSE IF Len(a) = 0 THEN TRUE
    ELSE IF a[1] # b[1] THEN a[1] < b[1]
    ELSE StrLess(Tail(a), Tail(b))

\* sort.Strings applied to the elements of a set of distinct strings
RECURSIVE SortStrings(_)
SortStrings(S) ==
    IF S = {} THEN <<>>
    ELSE LET m == CHOOSE x \in S : \A y \in S : x = y \/ StrLess(x, y)
         IN <<m>> \o SortStrings(S \ {m})

\* the elements of a sequence
Range(s) == {s[i] : i \in 1..Len(s)}

\* ------------------------------------------------------------------------
\* Fuzzy matching helpers
\* ------------------------------------------------------------------------

\* the rune filter of normKey's loop; keepPunct tells the two versions apart
RECURSIVE normFilter(_, _)
normFilter(s, keepPunct) ==
    IF s = <<>> THEN <<>>
    ELSE LET r == s[1]
             rest == normFilter(Tail(s), keepPunct)
         IN IF IsMn(r) THEN rest
            ELSE IF IsLetter(r) \/ IsNumber(r) \/ IsSpace(r) \/ (keepPunct /\ IsPunct(r))
                 THEN <<ToLowerRune(r)>> \o rest
                 ELSE rest

\* a normKey that collapses the spaces before it removes the runes it drops
normKeyCollapseFirst(s) ==
    normFilter(JoinSpace(Fields(ToLower(TrimSpace(s)))), TRUE)

\* normKey of the split package: letters, numbers, spaces and punctuation stay
normKey(s) ==
    JoinSpace(Fields(normFilter(ToLower(TrimSpace(s)), TRUE)))

\* normKey of cmd/food-recipes: letters, numbers and spaces stay
normKeyNoPunct(s) ==
    JoinSpace(Fields(normFilter(ToLower(TrimSpace(s)), FALSE)))

min(a, b) == IF a < b THEN a ELSE b

\* an inner loop in which leaving out a rune of a costs 2
RECURSIVE levInnerDearDelete(_, _, _, _, _, _)
levInnerDearDelete(ar, br, i, prev, cur, j) ==
    IF j > Len(br) THEN cur
    ELSE LET cost == IF ar[i] # br[j] THEN 1 ELSE 0
             a == prev[j + 1] + 2
             b == cur[j] + 1
             c == prev[j] + cost
         IN levInnerDearDelete(ar, br, i, prev,
                               [cur EXCEPT ![j + 1] = min(a, min(b, c))], j + 1)

\* the inner loop of lev: fills cur[1..lb] of row i (cur[j] of the code is cur[j + 1])
RECURSIVE levInner(_, _, _, _, _, _)
levInner(ar, br, i, prev, cur, j) ==
    IF j > Len(br) THEN cur
    ELSE LET cost == IF ar[i] # br[j] THEN 1 ELSE 0
             a == prev[j + 1] + 1
             b == cur[j] + 1
             c == prev[j] + cost
         IN levInner(ar, br, i, prev, [cur EXCEPT ![j + 1] = min(a, min(b, c))], j + 1)

\* the outer loop of lev, with the row swap prev, cur = cur, prev
RECURSIVE levOuter(_, _, _, _, _)
levOuter(ar, br, prev, cur, i) ==
    IF i > Len(ar) THEN prev[Len(br) + 1]
    ELSE LET filled == levInner(ar, br, i, prev, [cur EXCEPT ![1] = i], 1)
         IN levOuter(ar, br, filled, prev, i + 1)

lev(a, b) ==
    IF a = b THEN 0
    ELSE IF Len(a) = 0 THEN Len(b)
    ELSE IF Len(b) = 0 THEN Len(a)
    ELSE levOuter(a, b, [j \in 1..(Len(b) + 1) |-> j - 1],
                  [j \in 1..(Len(b) + 1) |-> 0], 1)

\* min3 of cmd/food-recipes
min3(a, b, c) ==
    IF a <= b /\ a <= c THEN a
    ELSE IF b <= c THEN b
    ELSE c

\* the inner loop of the lev of cmd/food-recipes (del, ins, sub and min3)
RECURSIVE levCopyInner(_, _, _, _, _, _)
levCopyInner(ar, br, i, prev, cur, j) ==
    IF j > Len(br) THEN cur
    ELSE LET cost == IF ar[i] # br[j] THEN 1 ELSE 0
             del == prev[j + 1] + 1
             ins == cur[j] + 1
             sub == prev[j] + cost
         IN levCopyInner(ar, br, i, prev, [cur EXCEPT ![j + 1] = min3(del, ins, sub)], j + 1)

\* its outer loop: copy(prev, cur) after each row, cur keeps its contents
RECURSIVE levCopyOuter(_, _, _, _, _)
levCopyOuter(ar, br, prev, cur, i) ==
    IF i > Len(ar) THEN prev[Len(br) + 1]
    ELSE LET filled == levCopyInner(ar, br, i, prev, [cur EXCEPT ![1] = i], 1)
         IN levCopyOuter(ar, br, filled, filled, i + 1)

\* lev of cmd/food-recipes, on the runes of its arguments
levCopy(a, b) ==
    IF a = b THEN 0
    ELSE IF Len(a) = 0 THEN Len(b)
    ELSE IF Len(b) = 0 THEN Len(a)
    ELSE levCopyOuter(a, b, [j \in 1..(Len(b) + 1) |-> j - 1],
                      [j \in 1..(Len(b) + 1) |-> 0], 1)

\* A Go string is a sequence of bytes, the UTF-8 encoding of its code points
\* (here: code points below U+0800, one or two bytes each).
RECURSIVE utf8(_)
utf8(s) ==
    IF s = <<>> THEN <<>>
    ELSE (IF s[1] < 128 THEN <<s[1]>>
          ELSE <<192 + (s[1] \div 64), 128 + (s[1] % 64)>>) \o utf8(Tail(s))

\* []rune(str): the code points a valid UTF-8 string encodes
RECURSIVE runes(_)
runes(str) ==
    IF str = <<>> THEN <<>>
    ELSE IF str[1] < 128 THEN <<str[1]>> \o runes(Tail(str))
    ELSE <<(str[1] - 192) * 64 + (str[2] - 128)>> \o runes(Tail(Tail(str)))

\* utf8.RuneCountInString(str): the bytes that are not continuation bytes
RuneCountInString(str) ==
    Cardinality({i \in 1..Len(str) : str[i] \notin 128..191})

\* a lev that takes each byte of its arguments for a character
levStringBytes(a, b) == lev(a, b)

\* lev on Go strings: the string comparison, the rune counts and the
\* conversions []rune(a), []rune(b) in front of the loops
levString(a, b) ==
    IF a = b THEN 0
    ELSE IF RuneCountInString(a) = 0 THEN RuneCountInString(b)
    ELSE IF RuneCountInString(b) = 0 THEN RuneCountInString(a)
    ELSE lev(runes(a), runes(b))

\* the lev of cmd/food-recipes on Go strings
levCopyString(a, b) ==
    IF a = b THEN 0
    ELSE IF RuneCountInString(a) = 0 THEN RuneCountInString(b)
    ELSE IF RuneCountInString(b) = 0 THEN RuneCountInString(a)
    ELSE levCopy(runes(a), runes(b))

\* ------------------------------------------------------------------------
\* CSV load
\* ------------------------------------------------------------------------

\* the required header names of loadCSV's req list, as code points
input1_name == <<105, 110, 112, 117, 116, 49, 95, 110, 97, 109, 101>>
input2_name == <<105, 110, 112, 117, 116, 50, 95, 110, 97, 109, 101>>
input3_name == <<105, 110, 112, 117, 116, 51, 95, 110, 97, 109, 101>>
output_name == <<111, 117, 116, 112, 117, 116, 95, 110, 97, 109, 101>>
output_qty == <<111, 117, 116, 112, 117, 116, 95, 113, 116, 121>>

req == <<input1_name, input2_name, input3_name, output_name, output_qty>>

\* a header map whose keys are lowered but not trimmed
headersNoTrim(rec0) ==
    [k \in {ToLower(rec0[i]) : i \in 1..Len(rec0)} |->
        CHOOSE i \in 0..(Len(rec0) - 1) :
            /\ ToLower(rec0[i + 1]) = k
            /\ \A j \in 0..(Len(rec0) - 1) : ToLower(rec0[j + 1]) = k => j <= i]

\* headers[strings.TrimSpace(strings.ToLower(h))] = i, a later column overwriting
headers(rec0) ==
    [k \in {TrimSpace(ToLower(rec0[i])) : i \in 1..Len(rec0)} |->
        CHOOSE i \in 0..(Len(rec0) - 1) :
            /\ TrimSpace(ToLower(rec0[i + 1])) = k
            /\ \A j \in 0..(Len(rec0) - 1) :
                   TrimSpace(ToLower(rec0[j + 1])) = k => j <= i]

\* col(name): ok tells whether the header has the column, i is its 0-based index
col(hdr, name) ==
    IF ToLower(name) \in DOMAIN hdr
    THEN [i |-> hdr[ToLower(name)], ok |-> TRUE]
    ELSE [i |-> 0, ok |-> FALSE]

\* the cell of a column, trimmed, or "" when the row has no such cell
cellOf(hdr, row, name) ==
    LET c == col(hdr, name)
    IN IF c.ok /\ c.i < Len(row) THEN TrimSpace(row[c.i + 1]) ELSE <<>>

\* strconv.Atoi on short strings: an optional sign and decimal digits
RECURSIVE digitsValue(_, _)
digitsValue(s, acc) ==
    IF s = <<>> THEN acc ELSE digitsValue(Tail(s), acc * 10 + (s[1] - 48))

Atoi(s) ==
    LET signed == Len(s) > 0 /\ s[1] \in {43, 45}
        digits == IF signed THEN Tail(s) ELSE s
        ok == Len(digits) > 0 /\ \A i \in 1..Len(digits) : digits[i] \in 48..57
    IN [ok |-> ok,
        val |-> IF ~ok THEN 0
                ELSE IF signed /\ s[1] = 45 THEN 0 - digitsValue(digits, 0)
                ELSE digitsValue(digits, 0)]

\* input cells taken as they are in the row, the empty ones left out
rowInputsUntrimmed(hdr, row) ==
    LET raw(name) == IF col(hdr, name).ok /\ col(hdr, name).i < Len(row)
                     THEN row[col(hdr, name).i + 1] ELSE <<>>
        cells == <<raw(input1_name), raw(input2_name), raw(input3_name)>>
    IN SelectSeq(cells, LAMBDA c : c # <<>>)

\* the non-empty trimmed cells of the three input columns, in column order
rowInputs(hdr, row) ==
    LET c1 == cellOf(hdr, row, input1_name)
        c2 == cellOf(hdr, row, input2_name)
        c3 == cellOf(hdr, row, input3_name)
    IN (IF c1 # <<>> THEN <<c1>> ELSE <<>>)
       \o (IF c2 # <<>> THEN <<c2>> ELSE <<>>)
       \o (IF c3 # <<>> THEN <<c3>> ELSE <<>>)

\* a quantity that is the parsed cell whenever the cell is an integer
rowQtyAnyInteger(hdr, row) ==
    LET c == col(hdr, output_qty)
        q == IF c.ok /\ c.i < Len(row) THEN Atoi(TrimSpace(row[c.i + 1]))
             ELSE [ok |-> FALSE, val |-> 0]
    IN IF q.ok THEN q.val ELSE 1

\* qty := 1, replaced by the parsed output_qty cell when that is an integer > 0
rowQty(hdr, row) ==
    LET c == col(hdr, output_qty)
        q == IF c.ok /\ c.i < Len(row) THEN Atoi(TrimSpace(row[c.i + 1]))
             ELSE [ok |-> FALSE, val |-> 0]
    IN IF q.ok /\ q.val > 0 THEN q.val ELSE 1

\* a row loop that keeps the rows without an output name
RECURSIVE readRowsKeepsNoOutput(_, _, _)
readRowsKeepsNoOutput(hdr, records, r) ==
    IF r > Len(records) THEN <<>>
    ELSE LET row == records[r]
             inputs == rowInputs(hdr, row)
             output == cellOf(hdr, row, output_name)
             rest == readRowsKeepsNoOutput(hdr, records, r + 1)
         IN IF Len(row) = 0 THEN rest
            ELSE IF Len(inputs) = 0 THEN rest
            ELSE <<[Inputs |-> inputs, Output |-> output, Qty |-> rowQty(hdr, row)]>>
                 \o rest

\* the row loop of loadCSV over records[r..]: the recipes appended
RECURSIVE readRows(_, _, _)
readRows(hdr, records, r) ==
    IF r > Len(records) THEN <<>>
    ELSE LET row == records[r]
             inputs == rowInputs(hdr, row)
             output == cellOf(hdr, row, output_name)
             rest == readRows(hdr, records, r + 1)
         IN IF Len(row) = 0 THEN rest
            ELSE IF output = <<>> \/ Len(inputs) = 0 THEN rest
            ELSE <<[Inputs |-> inputs, Output |-> output, Qty |-> rowQty(hdr, row)]>>
                 \o rest

\* an index loop that goes through the inputs of a recipe from the last to the first
RECURSIVE indexVisitsBackwards(_, _)
indexVisitsBackwards(Recipes, i) ==
    IF i >= Len(Recipes) THEN <<>>
    ELSE LET ins == Recipes[i + 1].Inputs
             pairs == [k \in 1..Len(ins) |->
                          [id |-> i, ing |-> TrimSpace(ins[Len(ins) + 1 - k])]]
         IN SelectSeq(pairs, LAMBDA p : p.ing # <<>>) \o indexVisitsBackwards(Recipes, i + 1)

\* the (recipe ID, ingredient) pairs in the order the index loop visits them
RECURSIVE indexVisits(_, _)
indexVisits(Recipes, i) ==
    IF i >= Len(Recipes) THEN <<>>
    ELSE LET ins == Recipes[i + 1].Inputs
             pairs == [k \in 1..Len(ins) |-> [id |-> i, ing |-> TrimSpace(ins[k])]]
         IN SelectSeq(pairs, LAMBDA p : p.ing # <<>>) \o indexVisits(Recipes, i + 1)

\* ingSet: the ingredients visited
ingSetOf(visits) == {visits[k].ing : k \in 1..Len(visits)}

\* an index in which a later recipe's ID replaces the entry of its ingredient
ingIndexLastOnly(visits) ==
    [ing \in ingSetOf(visits) |->
        LET mine == SelectSeq(visits, LAMBDA p : p.ing = ing)
        IN <<mine[Len(mine)].id>>]

\* db.ingIndex[ing] = append(db.ingIndex[ing], i), over the visits in order
ingIndexOf(visits) ==
    [ing \in ingSetOf(visits) |->
        LET mine == SelectSeq(visits, LAMBDA p : p.ing = ing)
        IN [k \in 1..Len(mine) |-> mine[k].id]]

\* a lookup in which the first name written under a key stays
normIngToActualFirstWins(visits) ==
    [key \in {normKey(visits[k].ing) : k \in 1..Len(visits)} |->
        LET first == CHOOSE k \in 1..Len(visits) :
                /\ normKey(visits[k].ing) = key
                /\ \A j \in 1..Len(visits) : normKey(visits[j].ing) = key => k <= j
        IN visits[first].ing]

\* db.normIngToActual[normKey(ing)] = ing, over the visits in order: the last write stays
normIngToActualOf(visits) ==
    [key \in {normKey(visits[k].ing) : k \in 1..Len(visits)} |->
        LET last == CHOOSE k \in 1..Len(visits) :
                /\ normKey(visits[k].ing) = key
                /\ \A j \in 1..Len(visits) : normKey(visits[j].ing) = key => j <= k
        IN visits[last].ing]

\* the catalog before anything is loaded
NoDB ==
    [Recipes |-> <<>>, AllIngredients |-> <<>>, ingIndex |-> <<>>,
     normIngToActual |-> <<>>]

\* db.AllIngredients: the keys of ingSet, then sort.Strings
allIngredientsOf(visits) == SortStrings(ingSetOf(visits))

\* a loadCSV that returns the no-rows error when it has kept no data row
loadCSVRejectsEmpty(records) ==
    IF Len(records) = 0 THEN [err |-> "csv has no rows", db |-> NoDB]
    ELSE LET hdr == headers(records[1])
         IN IF \E k \in 1..Len(req) : ~col(hdr, req[k]).ok
            THEN [err |-> "missing required column", db |-> NoDB]
            ELSE IF readRows(hdr, records, 2) = <<>>
                 THEN [err |-> "csv has no rows", db |-> NoDB]
                 ELSE LET Recipes == readRows(hdr, records, 2)
                          visits == indexVisits(Recipes, 0)
                      IN [err |-> "",
                          db |-> [Recipes |-> Recipes,
                                  AllIngredients |-> allIngredientsOf(visits),
                                  ingIndex |-> ingIndexOf(visits),
                                  normIngToActual |-> normIngToActualOf(visits)]]

\* loadCSV on the records cr.ReadAll returned
loadCSV(records) ==
    IF Len(records) = 0 THEN [err |-> "csv has no rows", db |-> NoDB]
    ELSE LET hdr == headers(records[1])
         IN IF \E k \in 1..Len(req) : ~col(hdr, req[k]).ok
            THEN [err |-> "missing required column", db |-> NoDB]
            ELSE LET Recipes == readRows(hdr, records, 2)
                     visits == indexVisits(Recipes, 0)
                 IN [err |-> "",
                     db |-> [Recipes |-> Recipes,
                             AllIngredients |-> allIngredientsOf(visits),
                             ingIndex |-> ingIndexOf(visits),
                             normIngToActual |-> normIngToActualOf(visits)]]

\* ------------------------------------------------------------------------
\* Ingredient resolver
\* ------------------------------------------------------------------------

\* Scores are float64 in the code and every score is a multiple of 0.5; the
\* model keeps them as integers in units of one half: float64(lev) is
\* 2 * lev, and d *= 0.5 gives lev.

\* math.MaxFloat64, the score of the initial best: above every score
MaxFloat64 == 1000000

\* the acceptance threshold 2.5, in halves
Threshold == 5

\* candidates: one cand{norm, actual} per element of AllIngredients, in its order
candidatesOf(db) ==
    [k \in 1..Len(db.AllIngredients) |->
        [norm |-> normKey(db.AllIngredients[k]), actual |-> db.AllIngredients[k]]]

\* d of the fuzzy loop, in halves: the distance, halved when one contains the other
score(q, norm) ==
    LET d == lev(q, norm)
    IN IF Contains(norm, q) \/ Contains(q, norm) THEN d ELSE 2 * d

\* a fuzzy loop in which a later candidate of equal score replaces the best
RECURSIVE bestMatchLastWins(_, _, _, _)
bestMatchLastWins(q, candidates, k, best) ==
    IF k > Len(candidates) THEN best
    ELSE LET c == candidates[k]
             d == score(q, c.norm)
         IN bestMatchLastWins(q, candidates, k + 1,
                IF d <= best.Score THEN [Actual |-> c.actual, Score |-> d] ELSE best)

\* the fuzzy loop over candidates[k..]: best is replaced only by a strictly lower score
RECURSIVE bestMatch(_, _, _, _)
bestMatch(q, candidates, k, best) ==
    IF k > Len(candidates) THEN best
    ELSE LET c == candidates[k]
             d == score(q, c.norm)
         IN bestMatch(q, candidates, k + 1,
                IF d < best.Score THEN [Actual |-> c.actual, Score |-> d] ELSE best)

\* an acceptance test with the threshold at 2 instead of 2.5
acceptedStrict(best) == best.Actual # <<>> /\ best.Score <= 4

\* best.Actual != "" && best.Score <= 2.5
accepted(best) == best.Actual # <<>> /\ best.Score <= Threshold

\* a loop without the exact lookup: every term with a key goes to the fuzzy scan
RECURSIVE resolveLoopNoExact(_, _, _, _)
resolveLoopNoExact(db, candidates, inputs, acc) ==
    IF inputs = <<>> THEN acc
    ELSE LET raw == inputs[1]
             q == normKey(raw)
             best == bestMatch(q, candidates, 1, [Actual |-> <<>>, Score |-> MaxFloat64])
             next ==
                 IF q = <<>> THEN acc
                 ELSE IF accepted(best)
                 THEN [acc EXCEPT !.mapped = Append(@, best.Actual)]
                 ELSE [acc EXCEPT !.unknown = Append(@, raw)]
         IN resolveLoopNoExact(db, candidates, Tail(inputs), next)

\* a loop that reports a term without a normalized key as unknown
RECURSIVE resolveLoopKeepEmpty(_, _, _, _)
resolveLoopKeepEmpty(db, candidates, inputs, acc) ==
    IF inputs = <<>> THEN acc
    ELSE LET raw == inputs[1]
             q == normKey(raw)
             best == bestMatch(q, candidates, 1, [Actual |-> <<>>, Score |-> MaxFloat64])
             next ==
                 IF q # <<>> /\ q \in DOMAIN db.normIngToActual
                 THEN [acc EXCEPT !.mapped = Append(@, db.normIngToActual[q])]
                 ELSE IF q # <<>> /\ accepted(best)
                 THEN [acc EXCEPT !.mapped = Append(@, best.Actual)]
                 ELSE [acc EXCEPT !.unknown = Append(@, raw)]
         IN resolveLoopKeepEmpty(db, candidates, Tail(inputs), next)

\* a resolver loop that appends the key itself on the exact path
RECURSIVE resolveLoopAppendsKey(_, _, _, _)
resolveLoopAppendsKey(db, candidates, inputs, acc) ==
    IF inputs = <<>> THEN acc
    ELSE LET raw == inputs[1]
             q == normKey(raw)
             best == bestMatch(q, candidates, 1, [Actual |-> <<>>, Score |-> MaxFloat64])
             next ==
                 IF q = <<>> THEN acc
                 ELSE IF q \in DOMAIN db.normIngToActual
                 THEN [acc EXCEPT !.mapped = Append(@, q)]
                 ELSE IF accepted(best)
                 THEN [acc EXCEPT !.mapped = Append(@, best.Actual)]
                 ELSE [acc EXCEPT !.unknown = Append(@, raw)]
         IN resolveLoopAppendsKey(db, candidates, Tail(inputs), next)

\* the loop over the raw terms: mapped and unknown as appended so far
RECURSIVE resolveLoop(_, _, _, _)
resolveLoop(db, candidates, inputs, acc) ==
    IF inputs = <<>> THEN acc
    ELSE LET raw == inputs[1]
             q == normKey(raw)
             best == bestMatch(q, candidates, 1, [Actual |-> <<>>, Score |-> MaxFloat64])
             next ==
                 IF q = <<>> THEN acc
                 ELSE IF q \in DOMAIN db.normIngToActual
                 THEN [acc EXCEPT !.mapped = Append(@, db.normIngToActual[q])]
                 ELSE IF accepted(best)
                 THEN [acc EXCEPT !.mapped = Append(@, best.Actual)]
                 ELSE [acc EXCEPT !.unknown = Append(@, raw)]
         IN resolveLoop(db, candidates, Tail(inputs), next)

\* a de-duplication that lets repeated names through
uniqKeepsRepeats(mapped, seen) == mapped

\* the de-duplication loop: the first occurrence of each name, in order
RECURSIVE uniq(_, _)
uniq(mapped, seen) ==
    IF mapped = <<>> THEN <<>>
    ELSE IF mapped[1] \in seen THEN uniq(Tail(mapped), seen)
    ELSE <<mapped[1]>> \o uniq(Tail(mapped), seen \cup {mapped[1]})

\* db.mapUserIngredients(inputs): the two lists returned
mapUserIngredients(db, inputs) ==
    LET res == resolveLoop(db, candidatesOf(db), inputs,
                           [mapped |-> <<>>, unknown |-> <<>>])
    IN [mapped |-> uniq(res.mapped, {}), unknown |-> res.unknown]

\* ------------------------------------------------------------------------
\* Suggestion engine
\* ------------------------------------------------------------------------

\* sort.Ints on a copy
RECURSIVE insertSorted(_, _)
insertSorted(x, s) ==
    IF s = <<>> THEN <<x>>
    ELSE IF x <= s[1] THEN <<x>> \o s
    ELSE <<s[1]>> \o insertSorted(x, Tail(s))

RECURSIVE SortInts(_)
SortInts(s) == IF s = <<>> THEN <<>> ELSE insertSorted(s[1], SortInts(Tail(s)))

\* a merge loop that moves both positions on when the smaller element is in ac
RECURSIVE mergeLoopSkipsBoth(_, _, _, _)
mergeLoopSkipsBoth(ac, bc, i, j) ==
    IF ~(i < Len(ac) /\ j < Len(bc)) THEN <<>>
    ELSE IF ac[i + 1] = bc[j + 1]
         THEN <<ac[i + 1]>> \o mergeLoopSkipsBoth(ac, bc, i + 1, j + 1)
    ELSE IF ac[i + 1] < bc[j + 1] THEN mergeLoopSkipsBoth(ac, bc, i + 1, j + 1)
    ELSE mergeLoopSkipsBoth(ac, bc, i, j + 1)

\* the merge loop of intersectSortedOrUnsorted from positions i, j (0-based)
RECURSIVE mergeLoop(_, _, _, _)
mergeLoop(ac, bc, i, j) ==
    IF ~(i < Len(ac) /\ j < Len(bc)) THEN <<>>
    ELSE IF ac[i + 1] = bc[j + 1] THEN <<ac[i + 1]>> \o mergeLoop(ac, bc, i + 1, j + 1)
    ELSE IF ac[i + 1] < bc[j + 1] THEN mergeLoop(ac, bc, i + 1, j)
    ELSE mergeLoop(ac, bc, i, j + 1)

\* a merge that keeps what is in either list
intersectAsUnion(a, b) == SortInts(a \o b)

intersectSortedOrUnsorted(a, b) ==
    IF Len(a) = 0 \/ Len(b) = 0 THEN <<>>
    ELSE mergeLoop(SortInts(a), SortInts(b), 0, 0)

\* db.ingIndex[ing]: nil for a name that is no key
indexList(db, ing) ==
    IF ing \in DOMAIN db.ingIndex THEN db.ingIndex[ing] ELSE <<>>

\* an intersection loop that keeps only the list of the ingredient it is at
RECURSIVE intersectLoopOverwrites(_, _, _, _)
intersectLoopOverwrites(db, all, i, idxs) ==
    IF i >= Len(all) THEN idxs
    ELSE intersectLoopOverwrites(db, all, i + 1, indexList(db, all[i + 1]))

\* an intersection loop that passes over a name without an index list
RECURSIVE intersectLoopSkipsUnknown(_, _, _, _)
intersectLoopSkipsUnknown(db, all, i, idxs) ==
    IF i >= Len(all) THEN idxs
    ELSE LET list == indexList(db, all[i + 1])
         IN IF all[i + 1] \notin DOMAIN db.ingIndex
            THEN intersectLoopSkipsUnknown(db, all, i + 1, idxs)
            ELSE IF i = 0 THEN intersectLoopSkipsUnknown(db, all, i + 1, list)
            ELSE LET next == intersectSortedOrUnsorted(idxs, list)
                 IN IF Len(next) = 0 THEN next
                    ELSE intersectLoopSkipsUnknown(db, all, i + 1, next)

\* the intersection loop of suggest from all[i + 1] on, with idxs so far
RECURSIVE intersectLoop(_, _, _, _)
intersectLoop(db, all, i, idxs) ==
    IF i >= Len(all) THEN idxs
    ELSE LET list == indexList(db, all[i + 1])
         IN IF i = 0 THEN intersectLoop(db, all, i + 1, list)
            ELSE LET next == intersectSortedOrUnsorted(idxs, list)
                 IN IF Len(next) = 0 THEN next
                    ELSE intersectLoop(db, all, i + 1, next)

\* a seen loop that lets every ID through
uniqIDsKeepsRepeats(idxs, seen) == idxs

\* the seen loop of suggest: the IDs in order, each once
RECURSIVE uniqIDs(_, _)
uniqIDs(idxs, seen) ==
    IF idxs = <<>> THEN <<>>
    ELSE IF idxs[1] \in seen THEN uniqIDs(Tail(idxs), seen)
    ELSE <<idxs[1]>> \o uniqIDs(Tail(idxs), seen \cup {idxs[1]})

\* a suggest that returns every recipe for an empty argument
suggestIDsAllOnEmpty(db, all) ==
    IF Len(all) = 0 THEN [k \in 1..Len(db.Recipes) |-> k - 1]
    ELSE uniqIDs(intersectLoop(db, all, 0, <<>>), {})

\* the recipe IDs suggest appends to out, in order
suggestIDs(db, all) ==
    IF Len(all) = 0 THEN <<>>
    ELSE uniqIDs(intersectLoop(db, all, 0, <<>>), {})

\* db.suggest(all): out, the recipes of those IDs
suggest(db, all) ==
    LET ids == suggestIDs(db, all)
    IN [k \in 1..Len(ids) |-> db.Recipes[ids[k] + 1]]

\* What a call writes to the memory of the catalog.  A slice the call makes
\* itself (append([]int(nil), ...), make, a new variable) has an array of its
\* own; list := db.ingIndex[ing] shares its array with the catalog, so a write
\* through list would be a write to the catalog.

\* the contents of the arrays of a and b after intersectSortedOrUnsorted(a, b):
\* it copies both into ac and bc and sorts the copies
intersectLeaves(a, b) ==
    LET ac == SortInts(a)
        bc == SortInts(b)
    IN [a |-> a, b |-> b]

\* the catalog after the intersection loop of suggest from all[i + 1] on
RECURSIVE suggestStoreLoop(_, _, _, _)
suggestStoreLoop(db, all, i, idxs) ==
    IF i >= Len(all) THEN db
    ELSE LET ing == all[i + 1]
             list == indexList(db, ing)
         IN IF i = 0 THEN suggestStoreLoop(db, all, i + 1, list)
            ELSE LET next == intersectSortedOrUnsorted(idxs, list)
                     after == IF ing \in DOMAIN db.ingIndex
                              THEN [db EXCEPT !.ingIndex[ing] = intersectLeaves(idxs, list).b]
                              ELSE db
                 IN IF Len(next) = 0 THEN after
                    ELSE suggestStoreLoop(after, all, i + 1, next)

\* the catalog after a suggest that takes the first name's index list as it
\* is (no copy) and drops the repeated IDs in place (out := idxs[:0])
suggestStoreInPlace(db, all) ==
    IF Len(all) = 0 \/ all[1] \notin DOMAIN db.ingIndex THEN db
    ELSE LET list == db.ingIndex[all[1]]
             kept == uniqIDs(list, {})
         IN [db EXCEPT !.ingIndex[all[1]] = kept \o SubSeq(list, Len(kept) + 1, Len(list))]

\* the catalog after db.suggest(all): the first list is copied into idxs, the
\* lists after it go through intersectSortedOrUnsorted, out is made anew
suggestStore(db, all) ==
    IF Len(all) = 0 THEN db ELSE suggestStoreLoop(db, all, 0, <<>>)

\* ------------------------------------------------------------------------
\* The query text of /api/suggest
\* ------------------------------------------------------------------------

\* the runes csvSplitter's class [,\n;] matches
csvSplitterClass == {44, 10, 59}

\* the end of the match of [,\n;]+ that covers position i (0-based, exclusive end)
RECURSIVE matchEnd(_, _)
matchEnd(s, i) ==
    IF i < Len(s) /\ s[i + 1] \in csvSplitterClass THEN matchEnd(s, i + 1) ELSE i

\* csvSplitter.FindAllStringIndex(s, -1) from position i: the leftmost longest
\* matches, as pairs of 0-based begin and exclusive end
RECURSIVE findAll(_, _)
findAll(s, i) ==
    IF i >= Len(s) THEN <<>>
    ELSE IF s[i + 1] \in csvSplitterClass
         THEN <<<<i, matchEnd(s, i)>>>> \o findAll(s, matchEnd(s, i))
         ELSE findAll(s, i + 1)

\* the loop of Regexp.Split(s, -1) over the matches from the k-th on
RECURSIVE splitLoop(_, _, _, _, _, _)
splitLoop(s, matches, k, beg, end, strings) ==
    IF k > Len(matches)
    THEN (IF end # Len(s) THEN Append(strings, SubSeq(s, beg + 1, Len(s))) ELSE strings)
    ELSE LET match == matches[k]
         IN splitLoop(s, matches, k + 1, match[2], match[1],
                      IF match[2] # 0
                      THEN Append(strings, SubSeq(s, beg + 1, match[1]))
                      ELSE strings)

\* csvSplitter.Split(s, -1)
csvSplitterSplit(s) ==
    IF Len(s) = 0 THEN << <<>> >>
    ELSE splitLoop(s, findAll(s, 0), 1, 0, 0, <<>>)

\* a splitCSVLike that keeps the pieces untrimmed
splitCSVLikeNoTrim(s) ==
    SelectSeq(csvSplitterSplit(s), LAMBDA p : TrimSpace(p) # <<>>)

\* splitCSVLike(s): the pieces trimmed, the empty ones left out
splitCSVLike(s) ==
    LET raw == csvSplitterSplit(s)
        trimmed == [k \in 1..Len(raw) |-> TrimSpace(raw[k])]
    IN SelectSeq(trimmed, LAMBDA p : p # <<>>)

\* ------------------------------------------------------------------------
\* Inputs of the model
\* ------------------------------------------------------------------------

\* all sequences over S of length at most n
SeqsUpTo(S, n) == UNION {[1..k -> S] : k \in 0..n}

\* ingredient names: "ab", "Ab" (the same normalized key as "ab"), "ac", "a",
\* "a " (trimmed to "a" on load) and "+" (a symbol: its normalized key is empty)
n_ab == <<97, 98>>
n_Ab == <<65, 98>>
n_ac == <<97, 99>>
n_a == <<97>>
n_a_sp == <<97, 32>>
n_plus == <<43>>
\* a name no catalog has
n_zz == <<122, 122>>

\* output names "X" and "Y"
o_X == <<88>>
o_Y == <<89>>

\* data rows, cells in the order input1_name, input2_name, input3_name,
\* output_name, output_qty: two recipes that share "ab" and differ in the
\* second input, a name that collides with "ab" under normKey, a name without
\* a key, a recipe with three inputs that lists an ingredient twice, and a row
\* loadCSV skips (no output name)
RowPool ==
    { <<n_ab, n_ac, <<>>, o_X, <<50>>>>,
      <<n_ab, n_a_sp, <<>>, o_Y, <<>>>>,
      <<n_Ab, <<>>, <<>>, o_X, <<48>>>>,
      <<n_plus, n_ab, <<>>, o_Y, <<50>>>>,
      <<n_ac, n_ab, n_ac, o_X, <<120>>>>,
      <<n_a, n_ac, <<>>, <<>>, <<50>>>> }

\* header rows: the required names, and one without output_qty ("qty" instead)
HeaderPool ==
    { req,
      <<input1_name, input2_name, input3_name, output_name, <<113, 116, 121>>>> }

\* the record lists cr.ReadAll can return: a header row and up to MaxRows data rows
RecordsPool ==
    {<<h>> \o rows : h \in HeaderPool, rows \in SeqsUpTo(RowPool, MaxRows)}

\* raw terms: "AB" (an exact hit on the key "ab"), "ad" (distance 1 from "ab"
\* and "ac" and, with containment, from "a"), "xyz" (distance 3 from every
\* name with a key) and "+" (no normalized key)
t_AB == <<65, 66>>
t_ad == <<97, 100>>
t_xyz == <<120, 121, 122>>

TermPool == {t_AB, t_ad, t_xyz, n_plus}

\* raw terms tried alone: "xyb" (distance 2 from "ab"), "xxaxxx" and "xxaxxxx"
\* (they contain "a", at distance 5 and 6)
t_xyb == <<120, 121, 98>>
t_xxaxxx == <<120, 120, 97, 120, 120, 120>>
t_xxaxxxx == <<120, 120, 97, 120, 120, 120, 120>>

ProbePool == {t_xyb, t_xxaxxx, t_xxaxxxx}

\* the term sequences handed to mapUserIngredients
TermSeqs == SeqsUpTo(TermPool, MaxTerms) \cup {<<t>> : t \in ProbePool}

\* names handed to suggest
AllPool == {n_ab, n_ac, n_a, n_zz}

\* the name sequences handed to suggest
AllSeqs == SeqsUpTo(AllPool, MaxAll)

\* the runes of the strings handed to normKey: tab, space, "+" (symbol),
\* "-" (punctuation), "1", "A", "a", U+00E0 ("a" with a grave accent, one
\* precomposed code point), U+0301 (combining acute accent)
NormAlphabet == {9, 32, 43, 45, 49, 65, 97, 224, 769}

\* longest chain of normKey calls, each on the result of the one before
MaxNormCalls == 2

\* the code points of the strings handed to lev: "a", "b" (one byte each in a
\* Go string) and U+00E9 (two bytes)
LevAlphabet == {97, 98, 233}

\* the result of a call that has not run
NoResult == 0 - 1

\* the runes of the 'have' parameter: newline, space, ",", ";", "a", "b"
HaveAlphabet == {10, 32, 44, 59, 97, 98}

\* Sources for loadCSV alone.  Header rows: the required names as they are;
\* in mixed case and with surrounding white space; in another column order;
\* with one required name replaced by "qty" (one header per name, and one in
\* mixed case); and with a sixth column "note".
Upper(s) == [i \in 1..Len(s) |-> IF s[i] \in 97..122 THEN s[i] - 32 ELSE s[i]]
Spaced(s) == <<32>> \o s \o <<32>>
h_qty == <<113, 116, 121>>
h_note == <<110, 111, 116, 101>>

h_mixed ==
    <<Spaced(Upper(input1_name)), Upper(input2_name), input3_name \o <<9>>,
      <<79>> \o Tail(output_name), Spaced(output_qty)>>

h_reordered == <<output_name, output_qty, input3_name, input1_name, input2_name>>

h_extra == req \o <<h_note>>

LoadHeaders5 ==
    {req, h_mixed, h_reordered, [h_mixed EXCEPT ![5] = Upper(h_qty)]}
        \cup {[req EXCEPT ![k] = h_qty] : k \in 1..Len(req)}

\* Data rows, cells in the order of req: kept rows with the quantities "2",
\* "", "0", "-3", " 3 " and "x"; names that share a key ("ab", "Ab"), in
\* different rows and in one row; a name
\* with spaces around it, a name listed twice, a name without a key ("+"); a
\* row without an output name, one whose output name is white space, and one
\* whose input cells are empty or white space
LoadRowPool ==
    { <<n_ab, n_ac, <<>>, o_X, <<50>>>>,
      <<n_Ab, <<>>, <<>>, o_Y, <<>>>>,
      <<Spaced(n_a), <<>>, n_zz, o_X, <<48>>>>,
      <<n_ac, n_ab, n_ac, o_X, <<45, 51>>>>,
      <<n_plus, <<>>, <<>>, Spaced(o_Y), <<32, 51, 32>>>>,
      <<n_Ab, n_ab, <<>>, o_Y, <<120>>>>,
      <<n_zz, n_a, <<>>, <<>>, <<51>>>>,
      <<n_ab, <<>>, <<>>, <<32, 32>>, <<50>>>>,
      <<<<32>>, <<>>, <<>>, o_Y, <<50>>>> }

\* what cr.ReadAll can return: nothing (an empty file), or a header row and
\* up to MaxRows data rows with as many cells as the header row
LoadRecordsPool ==
    {<<>>}
        \cup {<<h>> \o rows : h \in LoadHeaders5, rows \in SeqsUpTo(LoadRowPool, MaxRows)}
        \cup {<<h_extra>> \o [i \in 1..Len(rows) |-> rows[i] \o <<h_note>>] :
                 rows \in SeqsUpTo(LoadRowPool, MaxRows)}

\* ------------------------------------------------------------------------
\* State
\* ------------------------------------------------------------------------

VARIABLES
    records,      \* what cr.ReadAll returned for the CSV source
    pc,           \* "start", "serving", "failed" (main); "norm" (normKey alone)
    loadErr,      \* the error loadCSV returned, "" for nil
    db,           \* the DB loadCSV returned (foodDB)
    op,           \* the call in progress: "none", "api" (/api/suggest), "suggest"
    terms,        \* the raw terms of the last mapUserIngredients call
    mapped,       \* its first result
    unknown,      \* its second result
    all,          \* the argument of the last suggest call
    sugs,         \* its result
    have,         \* the 'have' query parameter of the /api/suggest request
    normArg,      \* a string handed to normKey
    normTrace,    \* normKey(normArg), normKey of that, ... (split package)
    normTraceNP,  \* the same for the normKey of cmd/food-recipes
    levA,         \* the code points of the first string handed to lev
    levB,         \* the code points of the second
    levOut,       \* lev(a, b) of the split package, NoResult before the call
    levOutRev,    \* lev(b, a) of the split package
    levOutCopy,   \* lev(a, b) of cmd/food-recipes
    gsItems,      \* GlyphStore.Items
    gsFile,       \* the glyphs in the JSON file at GlyphStore.Path
    gsImages,     \* the IDs of the image files written next to it
    adds,         \* per caller: where its GlyphStore.Add call is, and its result
    now,          \* the clock read by time.Now
    fetchPc,      \* where the scraper's fetch is: "top", "do", "done"
    fetchI,       \* the index i of its loop over backoffs
    fetchLog,     \* the outcome of each client.Do so far
    ctxEnd,       \* "" while the context is live, else when it was cancelled:
                  \* "early" (before fetch), "wait" (in a backoff wait), "running"
    fetchRet      \* what fetch returned

vars ==
    <<records, pc, loadErr, db, op, terms, mapped, unknown, all, sugs, have,
      normArg, normTrace, normTraceNP, levA, levB, levOut, levOutRev, levOutCopy,
      gsItems, gsFile, gsImages, adds, now,
      fetchPc, fetchI, fetchLog, ctxEnd, fetchRet>>

requestVars == <<op, terms, mapped, unknown, all, sugs, have>>
normVars == <<normArg, normTrace, normTraceNP>>
levVars == <<levA, levB, levOut, levOutRev, levOutCopy>>
glyphVars == <<gsItems, gsFile, gsImages, adds, now>>
fetchVars == <<fetchPc, fetchI, fetchLog, ctxEnd, fetchRet>>

\* the distance specification's variables while it is not the one running
LevIdle ==
    /\ levA = <<>>
    /\ levB = <<>>
    /\ levOut = NoResult
    /\ levOutRev = NoResult
    /\ levOutCopy = NoResult

\* the glyph store's variables while no specification of it is running
GlyphIdle ==
    /\ gsItems = <<>>
    /\ gsFile = <<>>
    /\ gsImages = {}
    /\ adds = <<>>
    /\ now = 0

\* the scraper's variables while no specification of it is running
FetchIdle ==
    /\ fetchPc = "idle"
    /\ fetchI = 0
    /\ fetchLog = <<>>
    /\ ctxEnd = ""
    /\ fetchRet = ""

\* ------------------------------------------------------------------------
\* The server: main loads the catalog, then the handlers run on it
\* ------------------------------------------------------------------------

Init ==
    /\ records \in RecordsPool
    /\ pc = "start"
    /\ loadErr = ""
    /\ db = NoDB
    /\ op = "none"
    /\ terms = <<>>
    /\ mapped = <<>>
    /\ unknown = <<>>
    /\ all = <<>>
    /\ sugs = <<>>
    /\ have = <<>>
    /\ normArg = <<>>
    /\ normTrace = <<>>
    /\ normTraceNP = <<>>
    /\ LevIdle
    /\ GlyphIdle
    /\ FetchIdle

\* main: loadCSV, log.Fatalf on an error or on a catalog without recipes
Main ==
    /\ pc = "start"
    /\ LET r == loadCSV(records)
       IN /\ loadErr' = r.err
          /\ db' = r.db
          /\ pc' = IF r.err # "" \/ Len(r.db.Recipes) = 0 THEN "failed" ELSE "serving"
    /\ UNCHANGED <<records, requestVars, normVars, levVars, glyphVars, fetchVars>>

\* the /api/suggest handler on the parts of its query: resolve, then suggest.
\* mapUserIngredients reads db.AllIngredients and db.normIngToActual and writes
\* to slices of its own (candidates, mapped, unknown, uniq on mapped's array).
ApiSuggest(parts) ==
    /\ pc = "serving"
    /\ op = "none"
    /\ LET m == mapUserIngredients(db, parts)
       IN /\ terms' = parts
          /\ mapped' = m.mapped
          /\ unknown' = m.unknown
          /\ all' = m.mapped
          /\ sugs' = suggest(db, m.mapped)
          /\ db' = suggestStore(db, m.mapped)
    /\ op' = "api"
    /\ have' = <<>>
    /\ UNCHANGED <<records, pc, loadErr, normVars, levVars, glyphVars, fetchVars>>

\* db.suggest on a sequence of names
Suggest(names) ==
    /\ pc = "serving"
    /\ op = "none"
    /\ all' = names
    /\ sugs' = suggest(db, names)
    /\ db' = suggestStore(db, names)
    /\ op' = "suggest"
    /\ have' = <<>>
    /\ terms' = <<>>
    /\ mapped' = <<>>
    /\ unknown' = <<>>
    /\ UNCHANGED <<records, pc, loadErr, normVars, levVars, glyphVars, fetchVars>>

\* the call is over (writeJSON has sent the response): its arguments and
\* results are gone, the catalog stays, and the next call can start
Return ==
    /\ pc = "serving"
    /\ op # "none"
    /\ op' = "none"
    /\ terms' = <<>>
    /\ mapped' = <<>>
    /\ unknown' = <<>>
    /\ all' = <<>>
    /\ sugs' = <<>>
    /\ have' = <<>>
    /\ UNCHANGED <<records, pc, loadErr, db, normVars, levVars, glyphVars, fetchVars>>

Next ==
    \/ Main
    \/ \E parts \in TermSeqs : ApiSuggest(parts)
    \/ \E names \in AllSeqs : Suggest(names)
    \/ Return

Spec == Init /\ [][Next]_vars

\* ------------------------------------------------------------------------
\* The server on catalogs whose index lists repeat an ID
\* ------------------------------------------------------------------------

\* two data rows out of: "ab" and "ac"; "ac", "ab" and "ac" again; "Ab" alone
CallRecordsPool ==
    LET rows == { <<n_ab, n_ac, <<>>, o_X, <<50>>>>,
                  <<n_ac, n_ab, n_ac, o_X, <<120>>>>,
                  <<n_Ab, <<>>, <<>>, o_X, <<48>>>> }
    IN {<<req, r1, r2>> : r1 \in rows, r2 \in rows}

InitCalls ==
    /\ records \in CallRecordsPool
    /\ pc = "start"
    /\ loadErr = ""
    /\ db = NoDB
    /\ op = "none"
    /\ terms = <<>>
    /\ mapped = <<>>
    /\ unknown = <<>>
    /\ all = <<>>
    /\ sugs = <<>>
    /\ have = <<>>
    /\ normArg = <<>>
    /\ normTrace = <<>>
    /\ normTraceNP = <<>>
    /\ LevIdle
    /\ GlyphIdle
    /\ FetchIdle

SpecCalls == InitCalls /\ [][Next]_vars

\* ------------------------------------------------------------------------
\* The /api/suggest handler from the query text on
\* ------------------------------------------------------------------------

\* catalogs with the names "ab" and "ac", and "a" and "ab"
ApiRecordsPool ==
    { <<req, <<n_ab, n_ac, <<>>, o_X, <<50>>>>, <<n_ac, n_ab, n_ac, o_X, <<120>>>>>>,
      <<req, <<n_ab, n_a_sp, <<>>, o_Y, <<>>>>>> }

InitApi ==
    /\ records \in ApiRecordsPool
    /\ pc = "start"
    /\ loadErr = ""
    /\ db = NoDB
    /\ op = "none"
    /\ terms = <<>>
    /\ mapped = <<>>
    /\ unknown = <<>>
    /\ all = <<>>
    /\ sugs = <<>>
    /\ have = <<>>
    /\ normArg = <<>>
    /\ normTrace = <<>>
    /\ normTraceNP = <<>>
    /\ LevIdle
    /\ GlyphIdle
    /\ FetchIdle

\* the handler on r.URL.Query().Get("have") = q ("" when the parameter is
\* missing): 400 for an empty trimmed text (op "bad"), else split, resolve
\* and suggest
ApiSuggestHave(q) ==
    /\ pc = "serving"
    /\ op = "none"
    /\ have' = q
    /\ IF TrimSpace(q) = <<>>
       THEN /\ op' = "bad"
            /\ UNCHANGED <<terms, mapped, unknown, all, sugs, db>>
       ELSE LET parts == splitCSVLike(TrimSpace(q))
                m == mapUserIngredients(db, parts)
            IN /\ terms' = parts
               /\ mapped' = m.mapped
               /\ unknown' = m.unknown
               /\ all' = m.mapped
               /\ sugs' = suggest(db, m.mapped)
               /\ db' = suggestStore(db, m.mapped)
               /\ op' = "api"
    /\ UNCHANGED <<records, pc, loadErr, normVars, levVars, glyphVars, fetchVars>>

NextApi ==
    \/ Main
    \/ \E q \in SeqsUpTo(HaveAlphabet, MaxHaveLen) : ApiSuggestHave(q)
    \/ Return

SpecApi == InitApi /\ [][NextApi]_vars

\* ------------------------------------------------------------------------
\* normKey alone, on every string over NormAlphabet up to MaxNormLen
\* ------------------------------------------------------------------------

InitNorm ==
    /\ records = <<>>
    /\ pc = "norm"
    /\ loadErr = ""
    /\ db = NoDB
    /\ op = "none"
    /\ terms = <<>>
    /\ mapped = <<>>
    /\ unknown = <<>>
    /\ all = <<>>
    /\ sugs = <<>>
    /\ have = <<>>
    /\ normArg \in SeqsUpTo(NormAlphabet, MaxNormLen)
    /\ normTrace = <<>>
    /\ normTraceNP = <<>>
    /\ LevIdle
    /\ GlyphIdle
    /\ FetchIdle

\* normKey (split package) on normArg, then on its own result
NormKeyCall ==
    /\ pc = "norm"
    /\ Len(normTrace) < MaxNormCalls
    /\ normTrace' = Append(normTrace,
           normKey(IF normTrace = <<>> THEN normArg ELSE normTrace[Len(normTrace)]))
    /\ UNCHANGED <<records, pc, loadErr, db, requestVars, normArg, normTraceNP, levVars, glyphVars, fetchVars>>

\* normKey (cmd/food-recipes) on normArg, then on its own result
NormKeyNoPunctCall ==
    /\ pc = "norm"
    /\ Len(normTraceNP) < MaxNormCalls
    /\ normTraceNP' = Append(normTraceNP,
           normKeyNoPunct(IF normTraceNP = <<>> THEN normArg
                          ELSE normTraceNP[Len(normTraceNP)]))
    /\ UNCHANGED <<records, pc, loadErr, db, requestVars, normArg, normTrace, levVars, glyphVars, fetchVars>>

NextNorm == NormKeyCall \/ NormKeyNoPunctCall

SpecNorm == InitNorm /\ [][NextNorm]_vars

\* ------------------------------------------------------------------------
\* lev alone, on every pair of strings over LevAlphabet up to MaxLevLen
\* ------------------------------------------------------------------------

InitLev ==
    /\ records = <<>>
    /\ pc = "lev"
    /\ loadErr = ""
    /\ db = NoDB
    /\ op = "none"
    /\ terms = <<>>
    /\ mapped = <<>>
    /\ unknown = <<>>
    /\ all = <<>>
    /\ sugs = <<>>
    /\ have = <<>>
    /\ normArg = <<>>
    /\ normTrace = <<>>
    /\ normTraceNP = <<>>
    /\ levA \in SeqsUpTo(LevAlphabet, MaxLevLen)
    /\ levB \in SeqsUpTo(LevAlphabet, MaxLevLen)
    /\ levOut = NoResult
    /\ levOutRev = NoResult
    /\ levOutCopy = NoResult
    /\ GlyphIdle
    /\ FetchIdle

\* lev(a, b) of the split package
LevCall ==
    /\ pc = "lev"
    /\ levOut = NoResult
    /\ levOut' = levString(utf8(levA), utf8(levB))
    /\ UNCHANGED <<records, pc, loadErr, db, requestVars, normVars,
                   levA, levB, levOutRev, levOutCopy,
                   glyphVars, fetchVars>>

\* lev(b, a) of the split package
LevRevCall ==
    /\ pc = "lev"
    /\ levOutRev = NoResult
    /\ levOutRev' = levString(utf8(levB), utf8(levA))
    /\ UNCHANGED <<records, pc, loadErr, db, requestVars, normVars,
                   levA, levB, levOut, levOutCopy,
                   glyphVars, fetchVars>>

\* lev(a, b) of cmd/food-recipes
LevCopyCall ==
    /\ pc = "lev"
    /\ levOutCopy = NoResult
    /\ levOutCopy' = levCopyString(utf8(levA), utf8(levB))
    /\ UNCHANGED <<records, pc, loadErr, db, requestVars, normVars,
                   levA, levB, levOut, levOutRev,
                   glyphVars, fetchVars>>

NextLev == LevCall \/ LevRevCall \/ LevCopyCall

SpecLev == InitLev /\ [][NextLev]_vars

\* ------------------------------------------------------------------------
\* loadCSV alone, on the sources of LoadRecordsPool, and main's check of what
\* it returned
\* ------------------------------------------------------------------------

InitLoad ==
    /\ records \in LoadRecordsPool
    /\ pc = "load"
    /\ loadErr = ""
    /\ db = NoDB
    /\ op = "none"
    /\ terms = <<>>
    /\ mapped = <<>>
    /\ unknown = <<>>
    /\ all = <<>>
    /\ sugs = <<>>
    /\ have = <<>>
    /\ normArg = <<>>
    /\ normTrace = <<>>
    /\ normTraceNP = <<>>
    /\ LevIdle
    /\ GlyphIdle
    /\ FetchIdle

\* loadCSV returns: (nil, err) is loadErr # "" with db = NoDB, (&db, nil) is
\* loadErr = "" with the catalog in db
LoadCSV ==
    /\ pc = "load"
    /\ LET r == loadCSV(records)
       IN /\ loadErr' = r.err
          /\ db' = r.db
    /\ pc' = "loaded"
    /\ UNCHANGED <<records, requestVars, normVars, levVars, glyphVars, fetchVars>>

\* main after the call: log.Fatalf on an error or on a catalog without recipes
MainAfterLoad ==
    /\ pc = "loaded"
    /\ pc' = IF loadErr # "" \/ Len(db.Recipes) = 0 THEN "failed" ELSE "serving"
    /\ UNCHANGED <<records, loadErr, db, requestVars, normVars, levVars, glyphVars, fetchVars>>

NextLoad == LoadCSV \/ MainAfterLoad

SpecLoad == InitLoad /\ [][NextLoad]_vars

\* ------------------------------------------------------------------------
\* Properties of suggest
\* ------------------------------------------------------------------------

\* a suggest call has produced its result
Suggested == op \in {"api", "suggest"}

\* the recipes of the catalog, as a set of values
CatalogRecipes == Range(db.Recipes)

\* C1, as stated: every recipe suggest returns has each of its inputs among
\* the names supplied (so suggest on an ingredient two recipes share, alone,
\* returns neither).
C1_SubsetLaw ==
    Suggested =>
        \A k \in 1..Len(sugs) : Range(sugs[k].Inputs) \subseteq Range(all)

\* C1, amended: every recipe suggest returns has each supplied name among its
\* inputs, and suggest on one name alone returns every recipe that lists it
\* (both recipes, when two recipes share that ingredient).
C1_SuppliedAmongInputs ==
    Suggested =>
        /\ \A k \in 1..Len(sugs) : Range(all) \subseteq Range(sugs[k].Inputs)
        /\ Len(all) = 1 =>
               \A r \in CatalogRecipes : all[1] \in Range(r.Inputs) => r \in Range(sugs)

\* suggest on the shared ingredient "ab" alone returned two recipes that
\* differ in their other input
C1_Witness ==
    /\ op = "suggest"
    /\ all = <<n_ab>>
    /\ Len(sugs) = 2
    /\ Range(sugs[1].Inputs) # Range(sugs[2].Inputs)
    /\ ~(Range(sugs[1].Inputs) \subseteq Range(all))

\* C2, as stated: for a non-empty supplied sequence, every recipe of the
\* catalog whose inputs are all among the supplied names is in the result.
C2_Completeness ==
    (Suggested /\ all # <<>>) =>
        \A r \in CatalogRecipes :
            Range(r.Inputs) \subseteq Range(all) => r \in Range(sugs)

\* C2, amended: for a non-empty supplied sequence, a recipe of the catalog is
\* in the result if and only if every supplied name is among its inputs; a
\* supplied name the recipe does not use keeps it out.
C2_ReturnedIffAllSuppliedUsed ==
    (Suggested /\ all # <<>>) =>
        \A r \in CatalogRecipes :
            r \in Range(sugs) <=> Range(all) \subseteq Range(r.Inputs)

\* two names were supplied, one recipe uses both and is returned, and another
\* recipe is left out because it lacks one of them
C2_Witness ==
    /\ op = "suggest"
    /\ Cardinality(Range(all)) = 2
    /\ \E r \in CatalogRecipes : r \in Range(sugs)
    /\ \E r \in CatalogRecipes :
           /\ r \notin Range(sugs)
           /\ Range(all) \cap Range(r.Inputs) # {}

\* C3, as stated: for non-empty A and B with the names of A among those of B,
\* the recipes of suggest(A) are among those of suggest(B).
C3_Monotone ==
    (op = "suggest" /\ all # <<>>) =>
        \A B \in AllSeqs :
            Range(all) \subseteq Range(B) =>
                Range(sugs) \subseteq Range(suggest(db, B))

\* C3, amended: for non-empty A and B with the names of A among those of B,
\* the recipes of suggest(B) are among those of suggest(A): supplying more
\* names never adds a recipe, supplying fewer never removes one.
C3_Antitone ==
    (op = "suggest" /\ all # <<>>) =>
        \A B \in AllSeqs :
            Range(all) \subseteq Range(B) =>
                Range(suggest(db, B)) \subseteq Range(sugs)

\* a supplied sequence with a proper extension whose result is strictly smaller
C3_Witness ==
    /\ op = "suggest"
    /\ all # <<>>
    /\ \E B \in AllSeqs :
           /\ Range(all) \subseteq Range(B)
           /\ Range(all) # Range(B)
           /\ suggest(db, B) # <<>>
           /\ Range(suggest(db, B)) # Range(sugs)

\* ------------------------------------------------------------------------
\* Properties of mapUserIngredients
\* ------------------------------------------------------------------------

\* the ingredient names of the catalog
Ingredients == Range(db.AllIngredients)

\* the catalog names whose normalized key is q
SameKey(q) == {c \in Ingredients : normKey(c) = q}

\* the input names of the recipes, in recipe order and column order
RECURSIVE FlatInputs(_)
FlatInputs(rs) == IF rs = <<>> THEN <<>> ELSE rs[1].Inputs \o FlatInputs(Tail(rs))

\* the last name of the source whose normalized key is q
LastWithKey(q) ==
    LET f == FlatInputs(db.Recipes)
        k == CHOOSE k \in 1..Len(f) :
                 /\ normKey(f[k]) = q
                 /\ \A j \in (k + 1)..Len(f) : normKey(f[j]) # q
    IN f[k]

\* the acceptance rule in distances: at most 5 when one normalized string
\* contains the other, at most 2 otherwise
Acceptable(q, c) ==
    LET n == normKey(c)
        d == lev(q, n)
    IN IF Contains(n, q) \/ Contains(q, n) THEN d <= 5 ELSE d <= 2

\* twice the score of candidate c for the key q
TwiceScore(q, c) ==
    LET n == normKey(c)
    IN IF Contains(n, q) \/ Contains(q, n) THEN lev(q, n) ELSE 2 * lev(q, n)

\* the first name of AllIngredients among those of least score
FirstBest(q) ==
    LET AI == db.AllIngredients
        k == CHOOSE k \in 1..Len(AI) :
                 /\ \A j \in 1..Len(AI) : TwiceScore(q, AI[k]) <= TwiceScore(q, AI[j])
                 /\ \A j \in 1..(k - 1) : TwiceScore(q, AI[k]) < TwiceScore(q, AI[j])
    IN AI[k]

\* the term has a key and misses the exact lookup
OnFuzzyPath(t) == normKey(t) # <<>> /\ SameKey(normKey(t)) = {}

\* the term resolves: it has a key that a catalog name has too or is close to
IsResolved(t) ==
    /\ normKey(t) # <<>>
    /\ \/ SameKey(normKey(t)) # {}
       \/ \E c \in Ingredients : Acceptable(normKey(t), c)

\* the name a resolving term resolves to
ResolvedName(t) ==
    IF SameKey(normKey(t)) # {} THEN LastWithKey(normKey(t)) ELSE FirstBest(normKey(t))

\* the term has a key and does not resolve
IsUnknown(t) == normKey(t) # <<>> /\ ~IsResolved(t)

\* C4, as stated: a term whose normalized key is that of a catalog ingredient c
\* resolves to c itself, also when another ingredient has the same key.
C4_ExactResolvesToEachName ==
    op = "api" =>
        \A i \in 1..Len(terms) : \A c \in Ingredients :
            (normKey(c) # <<>> /\ normKey(terms[i]) = normKey(c)) => c \in Range(mapped)

\* C4, amended: a term whose normalized key is that of some catalog ingredient
\* resolves, without the fuzzy scan, to the name the normalized lookup holds
\* for that key: an ingredient with that key, c itself when c is the only one,
\* and the one written last by loadCSV when several share the key.
C4_ExactResolvesToLookupName ==
    op = "api" =>
        \A i \in 1..Len(terms) :
            LET t == terms[i]
                q == normKey(t)
            IN (q # <<>> /\ SameKey(q) # {}) =>
                   /\ q \in DOMAIN db.normIngToActual
                   /\ db.normIngToActual[q] = LastWithKey(q)
                   /\ LastWithKey(q) \in SameKey(q)
                   /\ LastWithKey(q) \in Range(mapped)
                   /\ t \notin Range(unknown)
                   /\ Len(terms) = 1 => mapped = <<LastWithKey(q)>>

\* "AB" alone was resolved on a catalog that holds "Ab" and "ab": the result
\* is "ab", written last, where the fuzzy scan would stop at "Ab"
C4_Witness ==
    /\ op = "api"
    /\ terms = <<t_AB>>
    /\ SameKey(n_ab) = {n_ab, n_Ab}
    /\ FirstBest(n_ab) = n_Ab
    /\ mapped = <<n_ab>>

\* C5: a term that misses the exact lookup is mapped, to a candidate within
\* the threshold, if and only if some candidate's score is at most 2.5, that
\* is its distance to the normalized term is at most 5 when one contains the
\* other and at most 2 otherwise; if none is, the raw term is reported
\* unknown and nothing is mapped for it.
C5_FuzzyAcceptance ==
    op = "api" =>
        \A i \in 1..Len(terms) :
            LET t == terms[i]
                q == normKey(t)
            IN OnFuzzyPath(t) =>
                   IF \E c \in Ingredients : Acceptable(q, c)
                   THEN /\ t \notin Range(unknown)
                        /\ \E c \in Ingredients :
                               /\ Acceptable(q, c)
                               /\ TwiceScore(q, c) <= 5
                               /\ c \in Range(mapped)
                               /\ Len(terms) = 1 => mapped = <<c>>
                   ELSE /\ t \in Range(unknown)
                        /\ \A c \in Ingredients : TwiceScore(q, c) > 5
                        /\ Len(terms) = 1 => (mapped = <<>> /\ unknown = <<t>>)

\* "xxaxxx" alone was mapped to "a", which it contains at distance 5, while
\* no other candidate is within distance 2
C5_Witness ==
    /\ op = "api"
    /\ terms = <<t_xxaxxx>>
    /\ mapped = <<n_a>>
    /\ unknown = <<>>
    /\ lev(normKey(t_xxaxxx), normKey(n_a)) = 5
    /\ \A c \in Ingredients \ {n_a} : ~Acceptable(normKey(t_xxaxxx), c)

\* s is strictly ascending in Go's string order
StrictlyAscending(s) ==
    \A i \in 1..Len(s) : \A j \in (i + 1)..Len(s) : StrLess(s[i], s[j])

\* C6: AllIngredients is sorted ascending without duplicates, and a term
\* mapped on the fuzzy path is mapped to the candidate of least score that
\* comes first in AllIngredients.
C6_FuzzyTieBreak ==
    /\ StrictlyAscending(db.AllIngredients)
    /\ op = "api" =>
           \A i \in 1..Len(terms) :
               LET t == terms[i]
                   q == normKey(t)
               IN (OnFuzzyPath(t) /\ t \notin Range(unknown)) =>
                      /\ FirstBest(q) \in Range(mapped)
                      /\ Len(terms) = 1 => mapped = <<FirstBest(q)>>

\* "ad" alone, at distance 1 from both "ab" and "ac", was mapped to "ab" on a
\* catalog whose source names "ac" first
C6_Witness ==
    /\ op = "api"
    /\ terms = <<t_ad>>
    /\ db.AllIngredients = <<n_ab, n_ac>>
    /\ db.Recipes[1].Inputs[1] = n_ac
    /\ TwiceScore(t_ad, n_ab) = TwiceScore(t_ad, n_ac)
    /\ mapped = <<n_ab>>

\* the term has a key and some mapped name has that key or is within the
\* threshold of it
HasMappedName(t) ==
    /\ normKey(t) # <<>>
    /\ \E c \in Range(mapped) : normKey(c) = normKey(t) \/ Acceptable(normKey(t), c)

\* C7: every term has exactly one outcome: a name it resolves to is in the
\* mapped list, or the term is in the unknown list, or it is in neither,
\* which happens exactly when its normalized key is empty; and every call
\* returns its two lists.
C7_ResolverTotality ==
    /\ op = "api" =>
           /\ \A i \in 1..Len(terms) :
                  LET t == terms[i]
                  IN /\ normKey(t) = <<>> =>
                            (t \notin Range(unknown) /\ (Len(terms) = 1 => mapped = <<>>))
                     /\ normKey(t) # <<>> =>
                            (t \in Range(unknown) <=> ~HasMappedName(t))
           /\ Range(unknown) \subseteq Range(terms)
           /\ Len(unknown) = Cardinality({i \in 1..Len(terms) : terms[i] \in Range(unknown)})
    /\ (pc = "serving" /\ op = "none") =>
           \A parts \in TermSeqs :
               LET m == mapUserIngredients(db, parts)
               IN /\ DOMAIN m = {"mapped", "unknown"}
                  /\ Len(m.mapped) + Len(m.unknown) <= Len(parts)

\* "+" (no key) and "xyz" were resolved together: "+" is in neither list,
\* "xyz" is unknown
C7_Witness ==
    /\ op = "api"
    /\ terms = <<n_plus, t_xyz>>
    /\ normKey(n_plus) = <<>>
    /\ mapped = <<>>
    /\ unknown = <<t_xyz>>

\* the position of the first term that resolves to the name c
FirstTermFor(c) ==
    CHOOSE k \in 1..Len(terms) :
        /\ IsResolved(terms[k]) /\ ResolvedName(terms[k]) = c
        /\ \A j \in 1..(k - 1) : ~(IsResolved(terms[j]) /\ ResolvedName(terms[j]) = c)

C9_EmptyInputs ==
    /\ (op = "api" /\ terms = <<>>) => (mapped = <<>> /\ unknown = <<>>)
    /\ (Suggested /\ all = <<>>) => sugs = <<>>

\* the handler ran on no terms, on a catalog that has recipes
C9_Witness ==
    /\ op = "api"
    /\ terms = <<>>
    /\ all = <<>>
    /\ sugs = <<>>
    /\ Len(db.Recipes) > 0

\* ------------------------------------------------------------------------
\* Properties of normKey
\* ------------------------------------------------------------------------

\* C10: normKey applied to its own result returns it unchanged, for both
\* versions of normKey.
C10_NormKeyIdempotent ==
    /\ \A i \in 2..Len(normTrace) : normTrace[i] = normTrace[i - 1]
    /\ \A i \in 2..Len(normTraceNP) : normTraceNP[i] = normTraceNP[i - 1]

\* both versions ran twice on "A", a combining accent and "+": the first call
\* changed the string, the second did not
C10_Witness ==
    /\ normArg = <<65, 769, 43>>
    /\ Len(normTrace) = 2
    /\ Len(normTraceNP) = 2
    /\ normTrace[1] = n_a
    /\ normTrace[2] = n_a
    /\ normTraceNP[2] = n_a

\* the letter a precomposed accented Latin-1 letter is built on (its Unicode
\* canonical decomposition without the combining mark); other runes as they are
baseLetter(r) ==
    IF r \in 192..197 THEN 65
    ELSE IF r = 199 THEN 67
    ELSE IF r \in 200..203 THEN 69
    ELSE IF r \in 204..207 THEN 73
    ELSE IF r = 209 THEN 78
    ELSE IF r \in 210..214 THEN 79
    ELSE IF r \in 217..220 THEN 85
    ELSE IF r = 221 THEN 89
    ELSE IF r \in 224..229 THEN 97
    ELSE IF r = 231 THEN 99
    ELSE IF r \in 232..235 THEN 101
    ELSE IF r \in 236..239 THEN 105
    ELSE IF r = 241 THEN 110
    ELSE IF r \in 242..246 THEN 111
    ELSE IF r \in 249..252 THEN 117
    ELSE IF r \in {253, 255} THEN 121
    ELSE r

\* the unaccented form of a string: combining marks gone, every precomposed
\* accented letter replaced by the letter it is built on
Unaccented(s) ==
    LET marksGone == SelectSeq(s, LAMBDA r : ~IsMn(r))
    IN [i \in 1..Len(marksGone) |-> baseLetter(marksGone[i])]

\* C11, as stated: a string and its unaccented form have the same normalized
\* key, whether an accent is a combining mark or part of a precomposed letter.
C11_DiacriticInsensitive ==
    Len(normTrace) >= 1 => normTrace[1] = normKey(Unaccented(normArg))

\* normKey ran on the precomposed letter U+00E0 and kept it: the key of "a"
\* with a grave accent is not the key of "a"
C11_Witness ==
    /\ normArg = <<224>>
    /\ Len(normTrace) >= 1
    /\ normTrace[1] = <<224>>
    /\ normKey(n_a) = n_a

\* ------------------------------------------------------------------------
\* Properties of lev
\* ------------------------------------------------------------------------

\* the classic Levenshtein distance of two sequences of code points, by its
\* recurrence: insertion, deletion and substitution cost 1 each
RECURSIVE editDistance(_, _)
editDistance(a, b) ==
    IF a = <<>> THEN Len(b)
    ELSE IF b = <<>> THEN Len(a)
    ELSE LET viaDelete == editDistance(Tail(a), b) + 1
             viaInsert == editDistance(a, Tail(b)) + 1
             viaSubst == editDistance(Tail(a), Tail(b)) + (IF a[1] = b[1] THEN 0 ELSE 1)
         IN min(viaDelete, min(viaInsert, viaSubst))

\* C12: lev(a, b) is the classic Levenshtein distance of the code points of a
\* and b, empty strings included, and the copy-based lev of cmd/food-recipes
\* returns what the row-swap lev returns.
C12_LevIsLevenshtein ==
    /\ levOut # NoResult => levOut = editDistance(levA, levB)
    /\ levOutRev # NoResult => levOutRev = editDistance(levB, levA)
    /\ levOutCopy # NoResult => levOutCopy = editDistance(levA, levB)
    /\ (levOut # NoResult /\ levOutCopy # NoResult) => levOut = levOutCopy

\* both versions ran on "ab" and the two-byte U+00E9 followed by "a" (one
\* substitution and one more: distance 2), and the split one on "" and "ab"
C12_Witness ==
    /\ levA = <<97, 98>>
    /\ levB = <<233, 97>>
    /\ levOut = 2
    /\ levOutCopy = 2
    /\ levString(<<>>, utf8(levA)) = 2

\* C13: lev(a, b) = lev(b, a); lev(a, a) = 0; lev(a, b) = 0 only when a = b.
C13_LevMetricLaws ==
    /\ (levOut # NoResult /\ levOutRev # NoResult) => levOut = levOutRev
    /\ (levOut # NoResult /\ levA = levB) => levOut = 0
    /\ levOut = 0 => levA = levB
    /\ levOutRev = 0 => levA = levB

\* lev ran both ways on strings of different lengths, "aab" and "b": the rows
\* have 2 cells one way and 4 the other, the distance is 2 both ways
C13_Witness ==
    /\ levA = <<97, 97, 98>>
    /\ levB = <<98>>
    /\ levOut = 2
    /\ levOutRev = 2

\* ------------------------------------------------------------------------
\* Properties of loadCSV
\* ------------------------------------------------------------------------

\* loadCSV has returned
Loaded == pc \in {"loaded", "failed", "serving"}

\* the header row has a column whose name, lowered and trimmed, is name
HasHeader(name) ==
    \E i \in 1..Len(records[1]) : TrimSpace(ToLower(records[1][i])) = name

\* C14: when a required header name is absent loadCSV returns an error and no
\* catalog; names are matched case-insensitively after trimming, and more
\* columns than the required ones are no error.
C14_RequiredHeaders ==
    (Loaded /\ Len(records) > 0) =>
        /\ (\E k \in 1..Len(req) : ~HasHeader(req[k])) =>
               (loadErr = "missing required column" /\ db = NoDB)
        /\ (\A k \in 1..Len(req) : HasHeader(req[k])) => loadErr = ""

\* loadCSV returned the error on a header row in mixed case and with spaces
\* whose last column is "QTY", followed by a valid data row
C14_Witness ==
    /\ pc = "loaded"
    /\ records = <<[h_mixed EXCEPT ![5] = Upper(h_qty)], <<n_ab, n_ac, <<>>, o_X, <<50>>>>>>
    /\ loadErr = "missing required column"
    /\ db = NoDB
    /\ \A k \in 1..4 : HasHeader(req[k])

\* the column of a header name the header row has
Column(name) ==
    CHOOSE i \in 1..Len(records[1]) : TrimSpace(ToLower(records[1][i])) = name

\* the trimmed cell of record r (2 and up: the data rows) in that column
Cell(r, name) == TrimSpace(records[r][Column(name)])

\* the row has no output name, or none of its three input cells holds a name
IsSkipRow(r) ==
    \/ Cell(r, output_name) = <<>>
    \/ /\ Cell(r, input1_name) = <<>>
       /\ Cell(r, input2_name) = <<>>
       /\ Cell(r, input3_name) = <<>>

\* the records of the data rows that are no skip rows
KeptRows == {r \in 2..Len(records) : ~IsSkipRow(r)}

\* the headers are complete, so loadCSV reads the data rows
ReadsRows ==
    /\ Loaded
    /\ Len(records) > 0
    /\ \A k \in 1..Len(req) : HasHeader(req[k])

\* C15, as stated: loadCSV returns an error when the source has a valid header
\* row and no data row, or only data rows it skips.
C15_ZeroRowsFail ==
    (ReadsRows /\ KeptRows = {}) => loadErr # ""

\* C15, amended: on such a source loadCSV returns no error and a catalog
\* without recipes and without ingredients; main then stops on its check for
\* zero recipes.  Only a source without any record, header row included,
\* makes loadCSV itself fail for having no rows.
C15_ZeroRowsLoadEmpty ==
    /\ (ReadsRows /\ KeptRows = {}) =>
           /\ loadErr = ""
           /\ db.Recipes = <<>>
           /\ db.AllIngredients = <<>>
           /\ DOMAIN db.ingIndex = {}
           /\ DOMAIN db.normIngToActual = {}
           /\ pc # "serving"
    /\ (Loaded /\ Len(records) = 0) => (loadErr = "csv has no rows" /\ pc # "serving")

\* loadCSV returned without an error on a header row alone, and main stopped
C15_Witness ==
    /\ records = <<req>>
    /\ pc = "failed"
    /\ loadErr = ""
    /\ db.Recipes = <<>>

\* the record of the k-th kept data row
KeptRow(k) ==
    CHOOSE r \in KeptRows : Cardinality({q \in KeptRows : q <= r}) = k

\* the names in the three input cells of record r, in column order
InputNames(r) ==
    LET cells == <<Cell(r, input1_name), Cell(r, input2_name), Cell(r, input3_name)>>
    IN SelectSeq(cells, LAMBDA c : c # <<>>)

\* the input names of the kept rows
KeptNames == UNION {Range(InputNames(r)) : r \in KeptRows}

\* C16: a row without an output name or without any input name gives no
\* recipe and no error; the other rows are loaded, in order; and the catalog's
\* name list, ingredient index and normalized lookup hold the names of the
\* kept rows only.
C16_RowSkipPolicy ==
    ReadsRows =>
        /\ loadErr = ""
        /\ Len(db.Recipes) = Cardinality(KeptRows)
        /\ \A k \in 1..Len(db.Recipes) :
               /\ db.Recipes[k].Output = Cell(KeptRow(k), output_name)
               /\ db.Recipes[k].Inputs = InputNames(KeptRow(k))
        /\ Range(db.AllIngredients) = KeptNames
        /\ DOMAIN db.ingIndex = KeptNames
        /\ DOMAIN db.normIngToActual = {normKey(n) : n \in KeptNames}
        /\ \A key \in DOMAIN db.normIngToActual : db.normIngToActual[key] \in KeptNames

\* a row without an output name whose inputs are "zz" and "a", then a kept
\* row with "ab" and "ac": one recipe, and neither "zz" nor "a" in the catalog
C16_Witness ==
    /\ pc = "loaded"
    /\ records = <<req, <<n_zz, n_a, <<>>, <<>>, <<51>>>>, <<n_ab, n_ac, <<>>, o_X, <<50>>>>>>
    /\ KeptRows = {3}
    /\ Len(db.Recipes) = 1
    /\ db.AllIngredients = <<n_ab, n_ac>>
    /\ n_zz \notin DOMAIN db.ingIndex

\* the decimal numeral of n, 0 <= n <= 99
DecimalOf(n) ==
    IF n < 10 THEN <<48 + n>> ELSE <<48 + (n \div 10), 48 + (n % 10)>>

\* the quantity a trimmed output_qty cell stands for: its value when it is the
\* numeral of an integer above 0 (with or without a plus sign), 1 otherwise
QtyOfCell(c) ==
    IF \E n \in 1..99 : c \in {DecimalOf(n), <<43>> \o DecimalOf(n)}
    THEN CHOOSE n \in 1..99 : c \in {DecimalOf(n), <<43>> \o DecimalOf(n)}
    ELSE 1

\* C17: every kept row gives a recipe, whatever its quantity cell holds, and
\* the recipe's quantity is the cell's value when the trimmed cell is an
\* integer above 0 and 1 otherwise.
C17_QuantityDefault ==
    ReadsRows =>
        /\ loadErr = ""
        /\ Len(db.Recipes) = Cardinality(KeptRows)
        /\ \A k \in 1..Len(db.Recipes) :
               db.Recipes[k].Qty = QtyOfCell(Cell(KeptRow(k), output_qty))

\* a row with the quantity " 3 " and a row with "-3": quantities 3 and 1
C17_Witness ==
    /\ pc = "loaded"
    /\ records = <<req, <<n_plus, <<>>, <<>>, Spaced(o_Y), <<32, 51, 32>>>>,
                   <<n_ac, n_ab, n_ac, o_X, <<45, 51>>>>>>
    /\ Len(db.Recipes) = 2
    /\ db.Recipes[1].Qty = 3
    /\ db.Recipes[2].Qty = 1

\* the IDs of the catalog's recipes
RecipeIDs == 0..(Len(db.Recipes) - 1)

\* C18: every input name of a recipe is in AllIngredients and has an index
\* entry that lists the recipe's ID; every ID an index entry lists is the ID
\* of a recipe that has the entry's name among its inputs; and every name in
\* AllIngredients is an input of some recipe.
C18_CatalogIndex ==
    (Loaded /\ loadErr = "") =>
        /\ \A id \in RecipeIDs : \A name \in Range(db.Recipes[id + 1].Inputs) :
               /\ name \in Range(db.AllIngredients)
               /\ name \in DOMAIN db.ingIndex
               /\ id \in Range(db.ingIndex[name])
        /\ \A name \in DOMAIN db.ingIndex : \A id \in Range(db.ingIndex[name]) :
               /\ id \in RecipeIDs
               /\ name \in Range(db.Recipes[id + 1].Inputs)
        /\ \A name \in Range(db.AllIngredients) :
               \E id \in RecipeIDs : name \in Range(db.Recipes[id + 1].Inputs)

\* two recipes share "ab", the second lists "ac" twice: "ab" is indexed under
\* both IDs and "ac" under 0 and twice under 1
C18_Witness ==
    /\ pc = "loaded"
    /\ loadErr = ""
    /\ Len(db.Recipes) = 2
    /\ db.AllIngredients = <<n_ab, n_ac>>
    /\ db.ingIndex[n_ab] = <<0, 1>>
    /\ db.ingIndex[n_ac] = <<0, 1, 1>>

\* the keys of the normalized lookup whose value is name
KeysOf(name) == {key \in DOMAIN db.normIngToActual : db.normIngToActual[key] = name}

\* C19, as stated: every name in AllIngredients is the value of exactly one
\* key of the normalized lookup, also when two names have the same key.
C19_LookupSurjective ==
    (Loaded /\ loadErr = "") =>
        \A name \in Ingredients : Cardinality(KeysOf(name)) = 1

\* C19, amended: the keys of the lookup are the normalized keys of the names
\* in AllIngredients, and each key holds the name with that key that the
\* source lists last; so a name is the value of exactly one key, its own, when
\* no name listed after it has the same key, and the value of no key otherwise.
C19_LookupKeepsLastName ==
    (Loaded /\ loadErr = "") =>
        /\ DOMAIN db.normIngToActual = {normKey(name) : name \in Ingredients}
        /\ \A key \in DOMAIN db.normIngToActual :
               db.normIngToActual[key] = LastWithKey(key)
        /\ \A name \in Ingredients :
               KeysOf(name) = IF LastWithKey(normKey(name)) = name
                              THEN {normKey(name)} ELSE {}

\* "ab" in the first recipe and "Ab" in the second: both are in AllIngredients,
\* the key "ab" holds "Ab", and "ab" is the value of no key
C19_Witness ==
    /\ pc = "loaded"
    /\ loadErr = ""
    /\ db.AllIngredients = <<n_Ab, n_ab, n_ac>>
    /\ db.normIngToActual[n_ab] = n_Ab
    /\ KeysOf(n_ab) = {}
    /\ KeysOf(n_Ab) = {n_ab}

\* ------------------------------------------------------------------------
\* The catalog after load
\* ------------------------------------------------------------------------

C21_RecipeShape ==
    (Loaded /\ loadErr = "") =>
        \A k \in 1..Len(db.Recipes) :
            LET rec == db.Recipes[k]
            IN /\ Len(rec.Inputs) \in 1..3
               /\ \A i \in 1..Len(rec.Inputs) :
                      /\ rec.Inputs[i] # <<>>
                      /\ TrimSpace(rec.Inputs[i]) = rec.Inputs[i]
               /\ rec.Inputs = InputNames(KeptRow(k))
               /\ rec.Output # <<>>
               /\ TrimSpace(rec.Output) = rec.Output
               /\ rec.Qty >= 1

\* the row " a ", "", "zz" with the quantity "0": inputs "a" and "zz", in that
\* order, and the quantity 1
C21_Witness ==
    /\ pc = "loaded"
    /\ records = <<req, <<Spaced(n_a), <<>>, n_zz, o_X, <<48>>>>>>
    /\ Len(db.Recipes) = 1
    /\ db.Recipes[1].Inputs = <<n_a, n_zz>>
    /\ db.Recipes[1].Output = o_X
    /\ db.Recipes[1].Qty = 1

\* ------------------------------------------------------------------------
\* The boundary of /api/suggest
\* ------------------------------------------------------------------------

\* the pieces of s between runs of commas, semicolons and newlines: the pairs
\* of first and last position of the maximal stretches without such a rune
Stretches(s) ==
    {st \in (1..Len(s)) \X (1..Len(s)) :
        /\ st[1] <= st[2]
        /\ \A i \in st[1]..st[2] : s[i] \notin {44, 59, 10}
        /\ st[1] = 1 \/ s[st[1] - 1] \in {44, 59, 10}
        /\ st[2] = Len(s) \/ s[st[2] + 1] \in {44, 59, 10}}

\* the stretches in text order, each trimmed, the empty ones left out
RECURSIVE InOrder(_, _)
InOrder(s, sts) ==
    IF sts = {} THEN <<>>
    ELSE LET st == CHOOSE x \in sts : \A y \in sts : x[1] <= y[1]
             piece == TrimSpace(SubSeq(s, st[1], st[2]))
         IN (IF piece = <<>> THEN <<>> ELSE <<piece>>) \o InOrder(s, sts \ {st})

Segments(s) == InOrder(s, Stretches(s))

\* C22: the handler hands the resolver exactly the segments of the 'have'
\* text between runs of commas, semicolons and newlines, trimmed, without the
\* empty ones and in order; a missing or all-white-space 'have' gets a 400
\* and neither the resolver nor suggest runs.
C22_InvocationBoundary ==
    /\ op = "api" =>
           /\ TrimSpace(have) # <<>>
           /\ terms = Segments(have)
           /\ all = mapped
    /\ op = "bad" =>
           /\ TrimSpace(have) = <<>>
           /\ terms = <<>>
           /\ mapped = <<>>
           /\ unknown = <<>>
           /\ all = <<>>
           /\ sugs = <<>>

\* the text ";a b" went to the resolver as the one term "a b"
C22_Witness ==
    /\ op = "api"
    /\ have = <<59, 97, 32, 98>>
    /\ terms = <<<<97, 32, 98>>>>

\* ------------------------------------------------------------------------
\* Properties of the suggestion result
\* ------------------------------------------------------------------------

\* the IDs that are in the index list of every name of names
InEveryList(names) ==
    {id \in RecipeIDs :
        \A k \in 1..Len(names) :
            /\ names[k] \in DOMAIN db.ingIndex
            /\ id \in Range(db.ingIndex[names[k]])}

\* C23: for a non-empty sequence of names suggest returns the recipes of the
\* IDs that are in the index list of every name, none when a name has no
\* list; and the result is the same for every order of the names and with
\* names repeated.
C23_IntersectionSemantics ==
    (Suggested /\ all # <<>>) =>
        /\ Len(sugs) = Cardinality(InEveryList(all))
        /\ \A id \in InEveryList(all) : db.Recipes[id + 1] \in Range(sugs)
        /\ \A k \in 1..Len(sugs) :
               \E id \in InEveryList(all) : sugs[k] = db.Recipes[id + 1]
        /\ \A other \in AllSeqs :
               Range(other) = Range(all) => suggest(db, other) = sugs

\* suggest ran on "ac" and "ab" where recipe 0 lists "ac" twice and recipe 1
\* once: both recipes, as for "ab" and "ac"
C23_Witness ==
    /\ op = "suggest"
    /\ all = <<n_ac, n_ab>>
    /\ n_ac \in DOMAIN db.ingIndex
    /\ db.ingIndex[n_ac] = <<0, 0, 1>>
    /\ InEveryList(all) = {0, 1}
    /\ Len(sugs) = 2
    /\ suggest(db, <<n_ab, n_ac>>) = sugs

\* the elements of a set of integers in ascending order
RECURSIVE Ascending(_)
Ascending(S) ==
    IF S = {} THEN <<>>
    ELSE LET m == CHOOSE x \in S : \A y \in S : x <= y
         IN <<m>> \o Ascending(S \ {m})

\* C24: the IDs suggest turns into recipes hold no ID twice, also when an
\* index list holds an ID twice, and they are in ascending order; the result
\* is the recipes of those IDs in that order.
C24_NoDuplicateIDs ==
    Suggested =>
        LET ids == suggestIDs(db, all)
            expected == IF all = <<>> THEN <<>> ELSE Ascending(InEveryList(all))
        IN /\ \A i \in 1..Len(ids) : \A j \in (i + 1)..Len(ids) : ids[i] < ids[j]
           /\ ids = expected
           /\ sugs = [k \in 1..Len(expected) |-> db.Recipes[expected[k] + 1]]

\* suggest ran on "ac" alone, listed under 0, 0 and 1: recipes 0 and 1, once each
C24_Witness ==
    /\ op = "suggest"
    /\ all = <<n_ac>>
    /\ n_ac \in DOMAIN db.ingIndex
    /\ db.ingIndex[n_ac] = <<0, 0, 1>>
    /\ sugs = <<db.Recipes[1], db.Recipes[2]>>

\* the names of the kept rows in source order: by row, then by input column
RECURSIVE SourceNames(_)
SourceNames(k) ==
    IF k > Cardinality(KeptRows) THEN <<>>
    ELSE InputNames(KeptRow(k)) \o SourceNames(k + 1)

\* the last of the names with the normalized key
LastAppearance(names, key) ==
    LET last == CHOOSE k \in 1..Len(names) :
                    /\ normKey(names[k]) = key
                    /\ \A j \in (k + 1)..Len(names) : normKey(names[j]) # key
    IN names[last]

\* C25: the normalized lookup maps each key to the name with that key that
\* comes last in the source, by row and then by input column, also when two
\* distinct names have the key; loading the same source again gives the same
\* lookup.
C25_CollisionRule ==
    ReadsRows =>
        LET names == SourceNames(1)
        IN /\ \A key \in DOMAIN db.normIngToActual :
                  db.normIngToActual[key] = LastAppearance(names, key)
           /\ \A k \in 1..Len(names) :
                  normKey(names[k]) \in DOMAIN db.normIngToActual
           /\ loadCSV(records).db.normIngToActual = db.normIngToActual

\* "ab" in the first row, "Ab" and then "ab" in the second: the key "ab"
\* holds "ab", the name of the later column
C25_Witness ==
    /\ pc = "loaded"
    /\ records = <<req, <<n_ab, n_ac, <<>>, o_X, <<50>>>>, <<n_Ab, n_ab, <<>>, o_Y, <<120>>>>>>
    /\ SourceNames(1) = <<n_ab, n_ac, n_Ab, n_ab>>
    /\ db.normIngToActual[n_ab] = n_ab

\* ------------------------------------------------------------------------
\* Properties of the resolver on the catalog's indexes
\* ------------------------------------------------------------------------

\* C26: every name of the mapped list, from the exact path or the fuzzy path,
\* is in AllIngredients and is a key of the ingredient index whose list is not
\* empty and holds IDs of recipes only.
C26_MappedNamesIndexed ==
    op = "api" =>
        \A k \in 1..Len(mapped) :
            /\ mapped[k] \in Ingredients
            /\ mapped[k] \in DOMAIN db.ingIndex
            /\ Len(db.ingIndex[mapped[k]]) > 0
            /\ Range(db.ingIndex[mapped[k]]) \subseteq RecipeIDs

\* "AB" resolved to "ab" on the exact path and "ad" to "a" on the fuzzy path
C26_Witness ==
    /\ op = "api"
    /\ terms = <<t_AB, t_ad>>
    /\ mapped = <<n_ab, n_a>>
    /\ OnFuzzyPath(t_ad)
    /\ ~OnFuzzyPath(t_AB)

\* C27, as stated: no name of the mapped list has an empty normalized key.
C27_NoEmptyKeyMapped ==
    op = "api" => \A k \in 1..Len(mapped) : normKey(mapped[k]) # <<>>

\* the term "xyz" was mapped to the ingredient "+", whose normalized key is
\* empty, on the fuzzy path
C27_Witness ==
    /\ op = "api"
    /\ terms = <<t_xyz>>
    /\ n_plus \in Ingredients
    /\ normKey(n_plus) = <<>>
    /\ OnFuzzyPath(t_xyz)
    /\ mapped = <<n_plus>>
    /\ unknown = <<>>


\* ------------------------------------------------------------------------
\* GlyphStore: Add and List, called by concurrent requests
\* ------------------------------------------------------------------------

\* the number of requests that call Add
MaxCallers == 2

\* the limits of Add on its trimmed arguments, in runes
NameMax == 64
SymbolsMax == 128
DescMax == 512

\* Glyph{}, what Add returns next to an error
NoGlyph ==
    [ID |-> <<0, <<>>>>, Name |-> <<>>, Symbols |-> <<>>, Description |-> <<>>,
     Photo |-> <<>>, CreatedAt |-> 0]

\* strings.EqualFold on the letters used here: equal after lower-casing
EqualFold(s, t) == ToLower(s) = ToLower(t)

\* the test of Add's loop over gs.Items, compared without case folding
sameGlyphExactName(it, g) ==
    it.Name = g.Name /\ normKey(it.Symbols) = normKey(g.Symbols)

\* the test of Add's loop over gs.Items
sameGlyph(it, g) ==
    EqualFold(it.Name, g.Name) /\ normKey(it.Symbols) = normKey(g.Symbols)

\* whether Add's loop over gs.Items returns the duplicate error for g
isDuplicate(items, g) == \E i \in 1..Len(items) : sameGlyph(items[i], g)

\* the error of Add's checks on its trimmed arguments, "" when they pass
validate(name, symbols, desc) ==
    IF name = <<>> THEN "name required"
    ELSE IF symbols = <<>> THEN "symbols required"
    ELSE IF Len(name) > NameMax THEN "name too long (max 64 chars)"
    ELSE IF Len(symbols) > SymbolsMax THEN "symbols too long (max 128 chars)"
    ELSE IF Len(desc) > DescMax THEN "description too long (max 512 chars)"
    ELSE ""

\* the glyph Add builds: the ID holds the first clock reading and (hashed in
\* the code) normKey(name+symbols), CreatedAt is the second clock reading
newGlyph(name, symbols, desc, t) ==
    [ID |-> <<t + 1, normKey(name \o symbols)>>, Name |-> name,
     Symbols |-> symbols, Description |-> desc, Photo |-> <<>>,
     CreatedAt |-> t + 2]

\* "/glyph-images/" and ".jpg" around the ID, kept as the ID here
photoPath(id) == <<id>>

\* g put into out, which is ordered by CreatedAt, newest first
listInsert(out, g) ==
    LET k == Cardinality({i \in 1..Len(out) : out[i].CreatedAt >= g.CreatedAt})
    IN SubSeq(out, 1, k) \o <<g>> \o SubSeq(out, k + 1, Len(out))

RECURSIVE listSort(_, _, _)
listSort(items, i, out) ==
    IF i > Len(items) THEN out
    ELSE listSort(items, i + 1, listInsert(out, items[i]))

\* GlyphStore.List: a copy of Items, newest first
List(items) == listSort(items, 1, <<>>)

\* --- inputs ---

LongRunes(n) == [i \in 1..n |-> 97]

g_Ab == <<65, 98>>
g_ab_sp == <<32, 97, 98>>
g_b == <<98>>
g_x == <<120>>
g_X_sp == <<88, 32>>

\* the arguments of the Add calls: name, symbols, description, and the photo
\* ("" for none, "image" for bytes image.Decode reads, "junk" for others)
AddRequest(name, symbols, desc, photo) ==
    [name |-> name, symbols |-> symbols, desc |-> desc, photo |-> photo]

ReqPool ==
    { AddRequest(g_Ab, g_x, <<>>, ""),
      AddRequest(g_ab_sp, g_X_sp, g_b, "image"),
      AddRequest(g_b, g_x, <<>>, ""),
      AddRequest(<<32>>, g_x, <<>>, ""),
      AddRequest(g_Ab, <<>>, <<>>, ""),
      AddRequest(g_Ab, g_x, <<>>, "junk"),
      AddRequest(LongRunes(NameMax + 1), g_x, <<>>, ""),
      AddRequest(g_b, LongRunes(SymbolsMax + 1), <<>>, ""),
      AddRequest(g_b, g_x, LongRunes(DescMax + 1), "") }

\* a glyph the store may hold from an earlier run (Load)
g_old ==
    [ID |-> <<0, normKey(g_b \o g_x)>>, Name |-> g_b, Symbols |-> g_x,
     Description |-> <<>>, Photo |-> <<>>, CreatedAt |-> 0]

Callers == 1..MaxCallers

IdleCall == [pc |-> "idle", g |-> NoGlyph, ret |-> NoGlyph, err |-> ""]

\* --- the calls ---

InitGlyph ==
    /\ records = <<>>
    /\ pc = "glyphs"
    /\ loadErr = ""
    /\ db = NoDB
    /\ op = "none"
    /\ terms = <<>>
    /\ mapped = <<>>
    /\ unknown = <<>>
    /\ all = <<>>
    /\ sugs = <<>>
    /\ have = <<>>
    /\ normArg = <<>>
    /\ normTrace = <<>>
    /\ normTraceNP = <<>>
    /\ LevIdle
    /\ FetchIdle
    /\ gsItems \in {<<>>, <<g_old>>}
    /\ gsFile = gsItems
    /\ gsImages = {}
    /\ adds = [p \in Callers |-> IdleCall]
    /\ now = 0

\* Add up to gs.mu.Lock(): trim, check, build g, write the photo; imageIO is
\* whether MkdirAll, Create, jpeg.Encode and Close all succeed
AddStart(p, r, imageIO) ==
    /\ pc = "glyphs"
    /\ adds[p].pc = "idle"
    /\ LET name == TrimSpace(r.name)
           symbols == TrimSpace(r.symbols)
           desc == TrimSpace(r.desc)
           e == validate(name, symbols, desc)
           g == newGlyph(name, symbols, desc, now)
       IN IF e # ""
          THEN /\ adds' = [adds EXCEPT ![p] = [pc |-> "done", g |-> NoGlyph,
                                               ret |-> NoGlyph, err |-> e]]
               /\ UNCHANGED <<now, gsImages>>
          ELSE /\ now' = now + 2
               /\ IF r.photo = ""
                  THEN /\ adds' = [adds EXCEPT ![p] = [pc |-> "lock", g |-> g,
                                                       ret |-> NoGlyph, err |-> ""]]
                       /\ UNCHANGED gsImages
                  ELSE IF r.photo = "junk"
                  THEN /\ adds' = [adds EXCEPT ![p] = [pc |-> "done", g |-> g,
                                                       ret |-> NoGlyph,
                                                       err |-> "invalid photo"]]
                       /\ UNCHANGED gsImages
                  ELSE IF ~imageIO
                  THEN /\ adds' = [adds EXCEPT ![p] = [pc |-> "done", g |-> g,
                                                       ret |-> NoGlyph,
                                                       err |-> "image file"]]
                       /\ UNCHANGED gsImages
                  ELSE /\ adds' = [adds EXCEPT ![p] =
                                      [pc |-> "lock",
                                       g |-> [g EXCEPT !.Photo = photoPath(g.ID)],
                                       ret |-> NoGlyph, err |-> ""]]
                       /\ gsImages' = gsImages \cup {g.ID}
    /\ UNCHANGED <<gsItems, gsFile>>
    /\ UNCHANGED <<records, pc, loadErr, db, requestVars, normVars, levVars, fetchVars>>

\* Add from gs.mu.Lock() to its return, one step because gs.mu is held
\* throughout; fileIO is "ok", or "write" when os.WriteFile fails, or
\* "rename" when os.Rename fails
AddCommit(p, fileIO) ==
    /\ pc = "glyphs"
    /\ adds[p].pc = "lock"
    /\ LET g == adds[p].g
       IN IF isDuplicate(gsItems, g)
          THEN /\ adds' = [adds EXCEPT ![p] =
                              [pc |-> "done", g |-> g, ret |-> NoGlyph,
                               err |-> "duplicate glyph (same name & symbols)"]]
               /\ UNCHANGED <<gsItems, gsFile>>
          ELSE /\ gsItems' = Append(gsItems, g)
               /\ IF fileIO = "ok"
                  THEN /\ gsFile' = gsItems'
                       /\ adds' = [adds EXCEPT ![p] =
                                      [pc |-> "done", g |-> g, ret |-> g, err |-> ""]]
                  ELSE /\ gsFile' = gsFile
                       /\ adds' = [adds EXCEPT ![p] =
                                      [pc |-> "done", g |-> g, ret |-> NoGlyph,
                                       err |-> fileIO]]
    /\ UNCHANGED <<now, gsImages>>
    /\ UNCHANGED <<records, pc, loadErr, db, requestVars, normVars, levVars, fetchVars>>

NextGlyph ==
    \/ \E p \in Callers, r \in ReqPool, imageIO \in BOOLEAN : AddStart(p, r, imageIO)
    \/ \E p \in Callers, fileIO \in {"ok", "write", "rename"} : AddCommit(p, fileIO)

SpecGlyph == InitGlyph /\ [][NextGlyph]_vars

\* --- C28 ---

DuplicateError == "duplicate glyph (same name & symbols)"

\* two glyphs equal in name under case folding and in symbols under normKey
EqualGlyphs(a, b) ==
    ToLower(a.Name) = ToLower(b.Name) /\ normKey(a.Symbols) = normKey(b.Symbols)

\* no two items of the list are equal in that sense
Unique(items) ==
    \A i, j \in 1..Len(items) : i < j => ~EqualGlyphs(items[i], items[j])

\* the call of p got as far as gs.mu.Lock()
ReachedLock(p) ==
    \/ adds[p].pc = "lock"
    \/ adds[p].pc = "done" /\ adds[p].err \in {"", DuplicateError, "write", "rename"}

\* it has returned from there
Committed(p) == adds[p].pc = "done" /\ ReachedLock(p)

\* the calls that add a glyph equal to the one of p
SameAdds(p) ==
    {q \in Callers : ReachedLock(q) /\ EqualGlyphs(adds[q].g, adds[p].g)}

\* the store held an equal glyph before any of the calls
HeldBefore(g) ==
    \E i \in 1..Len(gsItems) : gsItems[i].ID[1] = 0 /\ EqualGlyphs(gsItems[i], g)

\* the glyph of p's call is in Items
Appended(p) == \E i \in 1..Len(gsItems) : gsItems[i].ID = adds[p].g.ID

\* several Adds of one glyph, new to the store, have all returned
SeveralReturned(p) ==
    /\ Committed(p)
    /\ Cardinality(SameAdds(p)) >= 2
    /\ \A q \in SameAdds(p) : Committed(q)
    /\ ~HeldBefore(adds[p].g)

Listed(p) ==
    LET l == List(gsItems)
    IN \E i \in 1..Len(l) : l[i].ID = adds[p].g.ID

\* an equal glyph was in the store before the calls, or a call that
\* succeeded added one
AddedBefore(p) ==
    \/ HeldBefore(adds[p].g)
    \/ \E q \in Callers \ {p} :
          /\ adds[q].pc = "done"
          /\ adds[q].err = ""
          /\ EqualGlyphs(adds[q].g, adds[p].g)

\* C29: an Add that returned an error left Items without its glyph, so List
\* does not show the glyph, and an Add is rejected as a duplicate only
\* because of a glyph the store held or a successful Add put there, never
\* because of an Add that failed.
C29_AddAllOrNothing ==
    \A p \in Callers :
        (adds[p].pc = "done" /\ adds[p].err # "") =>
            /\ ~Appended(p)
            /\ ~Listed(p)
            /\ adds[p].err = DuplicateError => AddedBefore(p)

\* the first Add failed to write the JSON file, List shows its glyph, the file
\* does not hold it, and the retry by the second caller got the duplicate
\* error
C29_Witness ==
    /\ adds[1].pc = "done"
    /\ adds[1].err \in {"write", "rename"}
    /\ Listed(1)
    /\ \A i \in 1..Len(gsFile) : gsFile[i].ID # adds[1].g.ID
    /\ adds[2].pc = "done"
    /\ adds[2].err = DuplicateError
    /\ adds[2].g.ID[1] > adds[1].g.CreatedAt
    /\ EqualGlyphs(adds[1].g, adds[2].g)
    /\ ~HeldBefore(adds[2].g)

\* ------------------------------------------------------------------------
\* The scraper's fetch: bounded retry with backoff
\* ------------------------------------------------------------------------

\* the waits before the attempts, in milliseconds
backoffs == <<0, 500, 1000, 2000>>

\* what client.Do returned: an error, or a response with a status code
Failed == [err |-> TRUE, status |-> 0]
Response(code) == [err |-> FALSE, status |-> code]

\* the status codes the server answers with
StatusPool == {200, 204, 301, 404, 429, 500, 503, 999}

\* the test of the loop for a response that is tried again, applied to every
\* status that is not 2xx
retryStatusNot2xx(status) == status < 200 \/ status >= 300

\* the test of the loop for a response that is tried again
retryStatus(status) == status >= 500 \/ status = 429

\* the test after the loop for a response that is an error
badStatus(status) == status < 200 \/ status >= 300

\* what fetch returns for the outcome o of the attempt with index i, or
\* "continue"; post is what happens after a 2xx response: "ok", or "read" when
\* io.ReadAll fails, or "parse" when url.Parse fails
afterDo(o, i, post) ==
    IF o.err
    THEN IF i < Len(backoffs) - 1 THEN "continue" ELSE "transport error"
    ELSE IF retryStatus(o.status)
    THEN IF i < Len(backoffs) - 1 THEN "continue" ELSE "server error"
    ELSE IF badStatus(o.status) THEN "bad status"
    ELSE IF post = "read" THEN "read error"
    ELSE IF post = "parse" THEN "parse error"
    ELSE "body"

\* ctx.Done() is closed
Cancelled == ctxEnd # ""

InitFetch ==
    /\ records = <<>>
    /\ pc = "fetch"
    /\ loadErr = ""
    /\ db = NoDB
    /\ op = "none"
    /\ terms = <<>>
    /\ mapped = <<>>
    /\ unknown = <<>>
    /\ all = <<>>
    /\ sugs = <<>>
    /\ have = <<>>
    /\ normArg = <<>>
    /\ normTrace = <<>>
    /\ normTraceNP = <<>>
    /\ LevIdle
    /\ GlyphIdle
    /\ fetchPc = "start"
    /\ fetchI = 0
    /\ fetchLog = <<>>
    /\ ctxEnd \in {"", "early"}
    /\ fetchRet = ""

\* http.NewRequestWithContext: an error for a URL it cannot parse, else the
\* loop starts
FetchStart(urlOk) ==
    /\ fetchPc = "start"
    /\ IF urlOk
       THEN /\ fetchPc' = "top"
            /\ fetchRet' = ""
       ELSE /\ fetchPc' = "done"
            /\ fetchRet' = "request error"
    /\ UNCHANGED <<fetchI, fetchLog, ctxEnd>>
    /\ UNCHANGED <<records, pc, loadErr, db, requestVars, normVars, levVars, glyphVars>>

\* the head of the loop body: no wait for d = 0; for d > 0 the select, which
\* takes ctx.Done() when the context is cancelled before the timer fires
FetchBackoff ==
    /\ fetchPc = "top"
    /\ LET d == backoffs[fetchI + 1]
       IN IF d > 0 /\ Cancelled
          THEN /\ fetchPc' = "done"
               /\ fetchRet' = "context error"
          ELSE /\ fetchPc' = "do"
               /\ fetchRet' = ""
    /\ UNCHANGED <<fetchI, fetchLog, ctxEnd>>
    /\ UNCHANGED <<records, pc, loadErr, db, requestVars, normVars, levVars, glyphVars>>

\* client.Do and what follows it: continue, or a return
FetchDo(o, post) ==
    /\ fetchPc = "do"
    /\ Cancelled => o.err
    /\ fetchLog' = Append(fetchLog, o)
    /\ LET out == afterDo(o, fetchI, post)
       IN IF out = "continue"
          THEN /\ fetchI' = fetchI + 1
               /\ fetchPc' = "top"
               /\ fetchRet' = ""
          ELSE /\ fetchI' = fetchI
               /\ fetchPc' = "done"
               /\ fetchRet' = out
    /\ UNCHANGED ctxEnd
    /\ UNCHANGED <<records, pc, loadErr, db, requestVars, normVars, levVars, glyphVars>>

\* the caller's context is cancelled or reaches its deadline
Cancel ==
    /\ fetchPc \in {"top", "do"}
    /\ ~Cancelled
    /\ ctxEnd' = (IF fetchPc = "top" /\ backoffs[fetchI + 1] > 0
                  THEN "wait" ELSE "running")
    /\ UNCHANGED <<fetchPc, fetchI, fetchLog, fetchRet>>
    /\ UNCHANGED <<records, pc, loadErr, db, requestVars, normVars, levVars, glyphVars>>

DoOutcomes == {Failed} \cup {Response(c) : c \in StatusPool}

NextFetch ==
    \/ \E urlOk \in BOOLEAN : FetchStart(urlOk)
    \/ FetchBackoff
    \/ \E o \in DoOutcomes, post \in {"ok", "read", "parse"} : FetchDo(o, post)
    \/ Cancel

SpecFetch == InitFetch /\ [][NextFetch]_vars

\* --- C30 ---

\* a transport error, or a response with status 429 or 5xx
Transient(o) == o.err \/ o.status = 429 \/ o.status \in 500..599

\* a transport error, or a response with status 429 or of 500 and above
TransientOrAbove(o) == o.err \/ o.status = 429 \/ o.status >= 500

Is2xx(o) == ~o.err /\ o.status \in 200..299

LastDo == fetchLog[Len(fetchLog)]

\* fetch has returned after an attempt (not from the select, not before the
\* loop)
ReturnedAfterDo ==
    fetchPc = "done" /\ fetchRet \notin {"request error", "context error"}

FetchErrors ==
    {"request error", "context error", "transport error", "server error",
     "bad status", "read error", "parse error"}

\* a context cancelled during a wait ends fetch with the context's error and
\* without another attempt: fetch is still in the select, or has returned that
\* error, and the attempts are those made before the wait
CancelledInBackoff ==
    ctxEnd = "wait" =>
        /\ \/ fetchPc = "top"
           \/ fetchPc = "done" /\ fetchRet = "context error"
        /\ Len(fetchLog) = fetchI

\* C30 as stated: at most 4 attempts; another attempt only after a transport
\* error or a 429 or 5xx response; fetch stops at the first other response,
\* with the body for 2xx and an error otherwise; an error after the 4th failed
\* attempt; the context's error and no further attempt on a cancellation
\* during a wait.
C30_BoundedRetryStated ==
    /\ Len(fetchLog) <= 4
    /\ \A k \in 1..(Len(fetchLog) - 1) : Transient(fetchLog[k])
    /\ (fetchLog # <<>> /\ ~Transient(LastDo)) =>
          /\ fetchPc = "done"
          /\ fetchRet = (IF Is2xx(LastDo) THEN "body" ELSE "bad status")
    /\ (Len(fetchLog) = 4 /\ Transient(LastDo)) =>
          fetchPc = "done" /\ fetchRet \in FetchErrors
    /\ CancelledInBackoff

\* C30 amended: at most 4 attempts; another attempt only after a transport
\* error or a response with status 429 or of 500 and above; fetch stops at the
\* first other response, with an error for a status that is not 2xx, and for
\* 2xx with the body unless reading the body (or parsing the final URL) fails,
\* which is an error; an error after the 4th failed attempt; the context's
\* error and no further attempt on a cancellation during a wait.
C30_BoundedRetry ==
    /\ Len(fetchLog) <= 4
    /\ \A k \in 1..(Len(fetchLog) - 1) : TransientOrAbove(fetchLog[k])
    /\ (fetchLog # <<>> /\ ~TransientOrAbove(LastDo)) =>
          /\ fetchPc = "done"
          /\ Is2xx(LastDo) => fetchRet \in {"body", "read error", "parse error"}
          /\ ~Is2xx(LastDo) => fetchRet = "bad status"
    /\ (Len(fetchLog) = 4 /\ TransientOrAbove(LastDo)) =>
          fetchPc = "done" /\ fetchRet \in {"transport error", "server error"}
    /\ (fetchLog # <<>> /\ Len(fetchLog) < 4 /\ TransientOrAbove(LastDo)) =>
          \/ fetchPc = "top"
          \/ fetchPc = "done" /\ fetchRet = "context error"
          \/ fetchPc = "do"
    /\ fetchRet = "body" => fetchPc = "done" /\ Is2xx(LastDo)
    /\ CancelledInBackoff

\* three transient failures, then the 4th attempt is answered with 200 and
\* the body is returned
C30_Witness ==
    /\ Len(fetchLog) = 4
    /\ fetchLog[1].err
    /\ fetchLog[2] = Response(429)
    /\ fetchLog[3] = Response(503)
    /\ fetchLog[4] = Response(200)
    /\ fetchPc = "done"
    /\ fetchRet = "body"

====
